---- MODULE Spec2Model ----
(***************************************************************************)
(* Model of the comparison slider of vue-maplibre-compare: the             *)
(* useMapCompare controller (src/src/components/MapCompare.vue, lines      *)
(* 276-657, and its older variant src/unnamed/part_007), the DOM nodes and *)
(* listeners it creates, and the pointer, resize and layout events the     *)
(* browser delivers to it.                                                 *)
(*                                                                         *)
(* Lengths are integers counted in half CSS pixels, so that the midpoint   *)
(* width / 2 of a container that is a whole number of pixels wide is       *)
(* exact.                                                                  *)
(***************************************************************************)
EXTENDS Integers, Sequences, FiniteSets, TLC

VARIABLES
    opts,      \* the arguments of useMapCompare: orientation, mousemove, container, variant
    ctl,       \* the closure state of one controller
    dom,       \* the page: layout, nodes, styles and listeners the controller touches
    handlers,  \* EventEmitter.events: for each event type, its handlers in registration order
    out,       \* what the last operation did outward: error raised, handlers invoked, resize() calls
    maps,      \* the two map handles A and B of the engine: viewport, sources, layers
    sync,      \* the viewport synchronizer between the two maps
    rec,       \* the style reconciler: its baseline style of each side, and the caller's objects
    host,      \* the host of the maps: what it did to them so far
    log        \* what the last operation on the maps did: engine calls issued, events fired, error

vars == <<opts, ctl, dom, handlers, out, maps, sync, rec, host, log>>

----------------------------------------------------------------------------
(* Bounds of the model *)

\* along the split axis the container measures 0, 1, .. MaxPx whole pixels
MaxPx == 1
\* the container sits this far from the left and from the top of the viewport
Offset == 1
\* at most this many handlers are registered for slideend
MaxHandlers == 1

Dims == {2 * k : k \in 0..MaxPx}
MaxDim == 2 * MaxPx
\* pointer coordinates and setSlider arguments: from before the start edge
\* to beyond the far edge of the widest container at the largest offset
Coords == (Offset - 1)..(Offset + MaxDim + 1)
\* the other coordinate of a pointer event
Mirror(c) == MaxDim + Offset - c
Positions == -1..(MaxDim + 1)
Handlers == {"h1"}

\* across the split axis the container keeps one size, different from every
\* size it takes along the axis
Across == MaxDim + 2
\* the bounding rectangles the container can have, by orientation
Rects(orientation) ==
    {IF orientation = "horizontal"
     THEN [left |-> Offset, top |-> Offset, width |-> Across, height |-> d]
     ELSE [left |-> Offset, top |-> Offset, width |-> d, height |-> Across] : d \in Dims}

\* JavaScript null: for a string, for a number and for a DOMRect
Null == "null"
NoNumber == [isNull |-> TRUE, value |-> 0]
Number(n) == [isNull |-> FALSE, value |-> n]
NoRect == [left |-> 0, top |-> 0, width |-> -1, height |-> -1]

Range(seq) == {seq[k] : k \in 1..Len(seq)}

Min(a, b) == IF a <= b THEN a ELSE b
Max(a, b) == IF a >= b THEN a ELSE b

----------------------------------------------------------------------------
(* CSS values written by the controller, and what the browser makes of them *)

\* a CSS length  pct% + px + em  (calc(100% - 3px) is Length(100, -3, 0))
Length(pct, px, em) == [pct |-> pct, px |-> px, em |-> em]
Px(n) == Length(0, n, 0)
\* calc(100% - ${posX}px)
CalcFullMinus(n) == Length(100, -n, 0)
\* 999em
FarEm == Length(0, 0, 999)
\* 1em is 16px with the default font size, i.e. 32 half pixels
EmSize == 2 * 16

\* the empty string assigned by unmount: no clipping
NoClip == [fn |-> "none"]
\* clip-path: inset(top right bottom left)
Inset(t, r, b, l) == [fn |-> "inset", top |-> t, right |-> r, bottom |-> b, left |-> l]
\* clip: rect(top, right, bottom, left)
ClipRect(t, r, b, l) == [fn |-> "rect", top |-> t, right |-> r, bottom |-> b, left |-> l]

\* used value of a length against the box dimension it refers to
Resolve(len, dim) == (len.pct * dim) \div 100 + len.px + len.em * EmSize

\* The part [lo, hi] of a w x h box that a clip value leaves visible along
\* one axis ("x" or "y"); nothing is visible when hi <= lo.
Visible(clip, axis, w, h) ==
    LET dim == IF axis = "x" THEN w ELSE h
    IN  CASE clip.fn = "none" -> [lo |-> 0, hi |-> dim]
          [] clip.fn = "inset" ->
                LET near == IF axis = "x" THEN clip.left ELSE clip.top
                    far  == IF axis = "x" THEN clip.right ELSE clip.bottom
                IN  [lo |-> Max(0, Resolve(near, dim)),
                     hi |-> Min(dim, dim - Resolve(far, dim))]
          [] clip.fn = "rect" ->
                LET near == IF axis = "x" THEN clip.left ELSE clip.top
                    far  == IF axis = "x" THEN clip.right ELSE clip.bottom
                IN  [lo |-> Max(0, Resolve(near, dim)),
                     hi |-> Min(dim, Resolve(far, dim))]

----------------------------------------------------------------------------
(* The state a step works on *)

World == [opts |-> opts, ctl |-> ctl, dom |-> dom, handlers |-> handlers, out |-> out]

Quiet == [op |-> "none", args |-> <<>>, wasInitialized |-> FALSE,
          err |-> "none", emitted |-> <<>>, fired |-> <<>>, resized |-> {},
          sliderend |-> <<>>]

\* every operation starts with a clean record of its outward effects, noting
\* which operation it is, its numeric arguments (the position of setSlider,
\* the clientX and clientY of a pointer event) and whether the controller was
\* initialized before it
Begin(w, op, args) ==
    [w EXCEPT !.out = [Quiet EXCEPT !.op = op, !.args = args,
                                    !.wasInitialized = w.ctl.isInitialized]]

\* the slider controller leaves the maps' viewports and styles alone
Becomes(w) ==
    /\ opts' = w.opts
    /\ ctl' = w.ctl
    /\ dom' = w.dom
    /\ handlers' = w.handlers
    /\ out' = w.out
    /\ UNCHANGED <<maps, sync, rec, host, log>>

isHorizontal(w) == w.opts.orientation = "horizontal"

\* the dimension of a rectangle along the split axis
Extent(w, r) == IF isHorizontal(w) THEN r.height ELSE r.width

----------------------------------------------------------------------------
(* Helpers of the controller *)

\* the clip value of map A's container for the boundary at posX
clipOfA(w, posX) ==
    IF w.opts.variant = "clipPath"
    THEN IF isHorizontal(w)
         THEN Inset(Px(0), Px(0), CalcFullMinus(posX), Px(0))
         ELSE Inset(Px(0), CalcFullMinus(posX), Px(0), Px(0))
    ELSE IF isHorizontal(w)
         THEN ClipRect(Px(0), FarEm, Px(posX), Px(0))
         ELSE ClipRect(Px(0), Px(posX), Px(w.ctl.bounds.height), Px(0))

\* map B clipped with the value meant for map A
clipOfB_copiedFromA(w, posX) == clipOfA(w, posX)

\* the clip value of map B's container for the boundary at posX
clipOfB(w, posX) ==
    IF w.opts.variant = "clipPath"
    THEN IF isHorizontal(w)
         THEN Inset(Px(posX), Px(0), Px(0), Px(0))
         ELSE Inset(Px(0), Px(0), Px(0), Px(posX))
    ELSE IF isHorizontal(w)
         THEN ClipRect(Px(posX), FarEm, Px(w.ctl.bounds.height), Px(0))
         ELSE ClipRect(Px(0), FarEm, Px(w.ctl.bounds.height), Px(posX))

\* setPosition that goes on without bounds and without the overlay
setPosition_unguarded(w, pos) ==
    LET limit == IF isHorizontal(w) THEN w.ctl.bounds.height ELSE w.ctl.bounds.width
        posX == Min(pos, limit)
    IN  IF ~w.ctl.controlContainer
        THEN [w EXCEPT !.out.err = "TypeError"]
        ELSE [w EXCEPT !.dom.transform = Number(posX),
                       !.dom.clipA = clipOfA(w, posX),
                       !.dom.clipB = clipOfB(w, posX),
                       !.ctl.currentPosition = Number(posX)]

setPosition(w, pos) ==
    IF w.ctl.bounds = NoRect \/ ~w.ctl.controlContainer
    THEN w
    ELSE
      LET limit == IF isHorizontal(w) THEN w.ctl.bounds.height ELSE w.ctl.bounds.width
          posX == Min(pos, limit)
      IN  [w EXCEPT !.dom.transform = Number(posX),
                    !.dom.clipA = clipOfA(w, posX),
                    !.dom.clipB = clipOfB(w, posX),
                    !.ctl.currentPosition = Number(posX)]

\* getX without the lower clamp Math.max(x, 0)
getX_noLowerClamp(w, e) ==
    LET left == IF w.ctl.bounds = NoRect THEN 0 ELSE w.ctl.bounds.left
        width == IF w.ctl.bounds = NoRect THEN 0 ELSE w.ctl.bounds.width
        x == e.clientX - left
    IN  Min(x, width)

\* e is a mouse event or the first touch of a touch event
getX(w, e) ==
    LET left == IF w.ctl.bounds = NoRect THEN 0 ELSE w.ctl.bounds.left
        width == IF w.ctl.bounds = NoRect THEN 0 ELSE w.ctl.bounds.width
        x == e.clientX - left
    IN  Min(Max(x, 0), width)

getY(w, e) ==
    LET top == IF w.ctl.bounds = NoRect THEN 0 ELSE w.ctl.bounds.top
        height == IF w.ctl.bounds = NoRect THEN 0 ELSE w.ctl.bounds.height
        y == e.clientY - top
    IN  Min(Max(y, 0), height)

----------------------------------------------------------------------------
(* EventEmitter: a map from event type to the handlers registered for it *)

\* the event types of the model: the one the controller emits, and another
EventTypes == {"slideend", "moved"}
\* no handler is registered for any type (the Map is empty)
NoEvents == [type \in EventTypes |-> <<>>]

\* handlers whose body is  () => instance.off(type, itself)  ("once" idiom);
\* every other handler only takes note of the call
SelfRemoving == {"once"}

RECURSIVE IndexOf(_, _, _)
\* handlers.indexOf(fn), from position i on; 0 when fn is absent
IndexOf(hs, fn, i) ==
    IF i > Len(hs) THEN 0
    ELSE IF hs[i] = fn THEN i
    ELSE IndexOf(hs, fn, i + 1)

\* handlers.splice(index, 1)
Splice(hs, index) == [k \in 1..(Len(hs) - 1) |-> IF k < index THEN hs[k] ELSE hs[k + 1]]

\* events.get(type) || [], push, set
EmitterOn(w, type, fn) == [w EXCEPT !.handlers[type] = Append(@, fn)]

\* off that tests the index as if it counted from one: the first handler stays
EmitterOff_skipsFirst(w, type, fn) ==
    LET index == IndexOf(w.handlers[type], fn, 1)
    IN  IF index > 1 THEN [w EXCEPT !.handlers[type] = Splice(@, index)] ELSE w

\* an empty list and a deleted key read the same through events.get
EmitterOff(w, type, fn) ==
    LET index == IndexOf(w.handlers[type], fn, 1)
    IN  IF index > 0 THEN [w EXCEPT !.handlers[type] = Splice(@, index)] ELSE w

\* the handler of slide-end that initializeSwiper of the host component
\* registers
SliderEndHandler == "sliderEndHandler"

\* Math.round(position / dimension * 100 * 100) / 100, in hundredths of a
\* percent: the nearest integer, a half rounded up
Hundredths(position, dimension) == (2 * 10000 * position + dimension) \div (2 * dimension)

\* sliderEndHandler(data): the container is measured anew, and the host
\* emits 'sliderend' unless the position is null or the dimension is not
\* above zero
sliderEndHandler(w, data) ==
    LET dimension == Extent(w, w.dom.rect)
    IN  IF data.currentPosition.isNull \/ ~(dimension > 0)
        THEN w
        ELSE [w EXCEPT !.out.sliderend =
                          Append(@, [percentage |-> Hundredths(data.currentPosition.value, dimension),
                                     position |-> data.currentPosition.value])]

\* fn(...args): the call is noted, a self-removing handler unregisters and
\* the handler of the host component runs
invoke(w, type, fn, payload) ==
    LET w1 == [w EXCEPT !.out.fired = Append(@, [handler |-> fn, payload |-> payload])]
    IN  IF fn \in SelfRemoving THEN EmitterOff(w1, type, fn)
        ELSE IF fn = SliderEndHandler THEN sliderEndHandler(w1, payload)
        ELSE w1

RECURSIVE forEach(_, _, _, _, _)
\* Array.prototype.forEach over the registered list itself: the length is
\* read once, and an index that left the list meanwhile is skipped
forEach(w, type, k, len, payload) ==
    IF k > len THEN w
    ELSE IF k > Len(w.handlers[type]) THEN forEach(w, type, k + 1, len, payload)
    ELSE forEach(invoke(w, type, w.handlers[type][k], payload), type, k + 1, len, payload)

emit(w, type, payload) ==
    LET w1 == [w EXCEPT !.out.emitted = Append(@, [type |-> type, payload |-> payload])]
    IN  forEach(w1, type, 1, Len(w1.handlers[type]), payload)

----------------------------------------------------------------------------
(* Event handlers of the controller *)

\* e = [touches |-> BOOLEAN, clientX |-> .., clientY |-> ..]
onMove(w, e) ==
    IF w.opts.mousemove /\ ~w.ctl.controlContainer
    THEN \* controlContainer.value!.style on a null reference
         [w EXCEPT !.out.err = "TypeError"]
    ELSE
      LET pe == IF e.touches THEN "auto" ELSE "none"
          w1 == IF w.opts.mousemove
                THEN [w EXCEPT !.dom.overlayPointerEvents = pe,
                               !.dom.swiperPointerEvents = pe]
                ELSE w
      IN  IF isHorizontal(w1)
          THEN setPosition(w1, getY(w1, e))
          ELSE setPosition(w1, getX(w1, e))

restoreSelection(w) == [w EXCEPT !.dom.userSelect = ""]

\* onMouseUp that leaves its listeners on the document
onMouseUp_keepsListening(w) ==
    LET w2 == restoreSelection(w)
    IN  emit(w2, "slideend", [currentPosition |-> w2.ctl.currentPosition])

onMouseUp(w) ==
    LET w1 == [w EXCEPT !.dom.docListeners = @ \ {"mousemove", "mouseup"}]
        w2 == restoreSelection(w1)
    IN  emit(w2, "slideend", [currentPosition |-> w2.ctl.currentPosition])

\* onTouchEnd that ends the drag without telling anyone
onTouchEnd_silent(w) ==
    LET w1 == [w EXCEPT !.dom.docListeners = @ \ {"touchmove", "touchend"}]
    IN  restoreSelection(w1)

onTouchEnd(w) ==
    LET w1 == [w EXCEPT !.dom.docListeners = @ \ {"touchmove", "touchend"}]
        w2 == restoreSelection(w1)
    IN  emit(w2, "slideend", [currentPosition |-> w2.ctl.currentPosition])

onDown(w, e) ==
    LET w1 == [w EXCEPT !.dom.userSelect = "none"]
    IN  IF e.touches
        THEN [w1 EXCEPT !.dom.docListeners = @ \cup {"touchmove", "touchend"}]
        ELSE [w1 EXCEPT !.dom.docListeners = @ \cup {"mousemove", "mouseup"}]

\* the inline styles the clip-path variant (re)applies to its two elements
applyInlineStyles(w) ==
    IF w.opts.variant = "clipPath"
    THEN [w EXCEPT !.dom.overlayPointerEvents = IF w.ctl.controlContainer THEN "none" ELSE @,
                   !.dom.swiperPointerEvents = IF w.ctl.swiper THEN "auto" ELSE @]
    ELSE w

resizeHandler(w) ==
    LET w1 == [w EXCEPT !.ctl.bounds = w.dom.rect]
        w2 == applyInlineStyles(w1)
    IN  \* null and 0 are both falsy
        IF ~w2.ctl.currentPosition.isNull /\ w2.ctl.currentPosition.value # 0
        THEN setPosition(w2, w2.ctl.currentPosition.value)
        ELSE w2

----------------------------------------------------------------------------
(* Initialization and teardown *)

\* the body of initialize that takes the first measure as it is, zero or not
build_measuresOnce(w) ==
    LET w1 == [w EXCEPT !.ctl.isInitialized = TRUE,
                        !.ctl.controlContainer = TRUE,
                        !.ctl.swiper = TRUE,
                        !.dom.overlays = @ + 1,
                        !.dom.swipers = @ + 1,
                        !.dom.overlayPointerEvents = "none",
                        !.dom.swiperPointerEvents = "auto",
                        !.ctl.bounds = w.dom.rect]
        w3 == setPosition(w1, Extent(w1, w1.ctl.bounds) \div 2)
    IN  [w3 EXCEPT !.ctl.clearSync = TRUE,
                   !.dom.syncs = @ + 1,
                   !.ctl.resizeHandler = TRUE,
                   !.dom.resizeListeners = @ + 1,
                   !.dom.mapMoveListeners =
                       IF w3.opts.mousemove THEN {"A", "B"} ELSE @,
                   !.dom.swiperListeners = {"mousedown", "touchstart"}]

\* the body of initialize once the target element is resolved
build(w) ==
    LET \* the overlay with its swiper, appended to the target
        w1 == [w EXCEPT !.ctl.isInitialized = TRUE,
                        !.ctl.controlContainer = TRUE,
                        !.ctl.swiper = TRUE,
                        !.dom.overlays = @ + 1,
                        !.dom.swipers = @ + 1,
                        !.dom.overlayPointerEvents = "none",
                        !.dom.swiperPointerEvents = "auto",
                        !.ctl.bounds = w.dom.rect]
        dimension == Extent(w1, w1.ctl.bounds)
        \* zero dimension: resize both maps and measure again
        w2 == IF w1.opts.variant = "clipPath" /\ dimension = 0
              THEN [w1 EXCEPT !.out.resized = {"A", "B"},
                              !.ctl.bounds = w1.dom.rect]
              ELSE w1
        startPos == Extent(w2, w2.ctl.bounds) \div 2
        w3 == setPosition(w2, startPos)
        \* syncMove, the resize listener, the optional hover listeners,
        \* and the pointer-down listeners on the swiper
    IN  [w3 EXCEPT !.ctl.clearSync = TRUE,
                   !.dom.syncs = @ + 1,
                   !.ctl.resizeHandler = TRUE,
                   !.dom.resizeListeners = @ + 1,
                   !.dom.mapMoveListeners =
                       IF w3.opts.mousemove THEN {"A", "B"} ELSE @,
                   !.dom.swiperListeners = {"mousedown", "touchstart"}]

\* initialize without the isInitialized guard
initialize_noGuard(w, found) ==
    IF w.opts.container = "null"
    THEN w
    ELSE IF w.opts.container = "selector" /\ ~found
    THEN [w EXCEPT !.out.err = "Invalid container element for map compare."]
    ELSE build(w)

\* initialize that marks the controller initialized before resolving the target
initialize_flagBeforeResolve(w, found) ==
    IF w.ctl.isInitialized \/ w.opts.container = "null"
    THEN w
    ELSE IF w.opts.container = "selector" /\ ~found
    THEN [w EXCEPT !.ctl.isInitialized = TRUE,
                   !.out.err = "Invalid container element for map compare."]
    ELSE build(w)

\* found: whether document.querySelector(container) returns an element
initialize(w, found) ==
    IF w.ctl.isInitialized \/ w.opts.container = "null"
    THEN w
    ELSE IF w.opts.container = "selector" /\ ~found
    THEN [w EXCEPT !.out.err = "Invalid container element for map compare."]
    ELSE build(w)

\* what unmount does once past its guard
teardown(w) ==
    [w EXCEPT !.ctl.isInitialized = FALSE,
              !.dom.syncs = IF w.ctl.clearSync THEN Max(@ - 1, 0) ELSE @,
              !.dom.resizeListeners = IF w.ctl.resizeHandler THEN Max(@ - 1, 0) ELSE @,
              !.dom.clipA = NoClip,
              !.dom.clipB = NoClip,
              !.dom.mapMoveListeners = {},
              !.dom.swiperListeners = IF w.ctl.swiper THEN {} ELSE @,
              !.dom.overlays = IF w.ctl.controlContainer THEN Max(@ - 1, 0) ELSE @,
              !.dom.swipers = IF w.ctl.controlContainer THEN Max(@ - 1, 0) ELSE @,
              !.dom.transform = IF w.ctl.controlContainer THEN NoNumber ELSE @,
              !.dom.overlayPointerEvents = IF w.ctl.controlContainer THEN Null ELSE @,
              !.dom.swiperPointerEvents = IF w.ctl.controlContainer THEN Null ELSE @,
              !.ctl.swiper = FALSE,
              !.ctl.controlContainer = FALSE,
              !.ctl.bounds = NoRect,
              !.ctl.currentPosition = NoNumber]

\* unmount without its guard, dereferencing the overlay it expects to exist
unmount_noGuard(w) ==
    IF ~w.ctl.controlContainer
    THEN [w EXCEPT !.out.err = "TypeError"]
    ELSE teardown(w)

unmount(w) ==
    IF ~w.ctl.isInitialized
    THEN w
    ELSE teardown(w)

setSlider(w, x) == setPosition(w, x)

----------------------------------------------------------------------------
(* The map engine: the two map handles, their viewports and 'move' events,  *)
(* and the viewport synchronizer                                            *)

Sides == {"A", "B"}
Other(side) == IF side = "A" THEN "B" ELSE "A"

Centers == {<<0, 0>>, <<10, 20>>}
Zooms == {1, 5}
Bearings == {0, 90}
Pitches == {0, 30}
Viewports == [center : Centers, zoom : Zooms, bearing : Bearings, pitch : Pitches]
\* the default center, zoom, bearing and pitch of the component
Home == [center |-> <<0, 0>>, zoom |-> 1, bearing |-> 0, pitch |-> 0]

\* identifiers of the sources and of the layers of a style, in key order
SourceIds == <<"a", "b">>
LayerIds == {"L", "M"}

\* a source that is not there
NoSource == [type |-> "none", tiles |-> <<>>]
\* { type: 'raster', tiles: [...] } and a source of another type
Raster(tiles) == [type |-> "raster", tiles |-> tiles]
GeoJson == [type |-> "geojson", tiles |-> <<>>]

\* a property map that is undefined, and one with the keys given a value
\* other than 0; the key 'visibility' of a layout is there when it is not ""
Undefined == [defined |-> FALSE, p |-> 0, q |-> 0, visibility |-> ""]
Props(p, q) == [defined |-> TRUE, p |-> p, q |-> q, visibility |-> ""]
PropKeys == <<"p", "q">>
\* no filter key, and a filter expression
NoFilter == [present |-> FALSE, expr |-> ""]
Filter(expr) == [present |-> TRUE, expr |-> expr]

\* a layer of a style
Layer(id, source, paint, layout, filter) ==
    [id |-> id, source |-> source, paint |-> paint, layout |-> layout, filter |-> filter]
Plain(id, source) == Layer(id, source, Undefined, Undefined, NoFilter)

\* a style description: sources by identifier, layers in drawing order
Style(sources, layers) == [sources |-> sources, layers |-> layers]
NoSources == [id \in Range(SourceIds) |-> NoSource]
EmptyStyle == Style(NoSources, <<>>)

\* a map handle showing viewport v with style s: the handle is held (not
\* null) and its style is loaded
Handle(v, s) == [viewport |-> v, style |-> s, alive |-> TRUE, loaded |-> TRUE]
TwoMaps(v) == [side \in Sides |-> Handle(v, EmptyStyle)]

\* no synchronizer is attached to the maps
NoSync == [kind |-> "none", listening |-> FALSE]

\* a host that did nothing yet: the side it works on, whether it edited a
\* style object it had passed to the reconciler, how many styles it had
\* reconciled, the layer allow-lists (empty by default) and the order
\* policy ('topmost' by default) it was given, and where it is in its life;
\* orphans counts the maps that were created for side B, that mapB no
\* longer holds and that were never removed; orientation is the one of the
\* swiperOptions prop ('vertical' by default)
NewHost(target) == [target |-> target, edited |-> FALSE, updates |-> 0,
                    mapLayers |-> [side \in Sides |-> <<>>], layerOrder |-> "topmost",
                    phase |-> "ready", compareEnabled |-> TRUE,
                    mapStyleA |-> EmptyStyle, mapStyleB |-> EmptyStyle,
                    awaits |-> {}, orphans |-> 0, orientation |-> "vertical"]

\* no style reconciler has been created
NoReconciler == [variant |-> "none",
                 current |-> [side \in Sides |-> EmptyStyle],
                 aliased |-> [side \in Sides |-> FALSE],
                 caller |-> [side \in Sides |-> EmptyStyle]]

Silent == [op |-> "none", args |-> <<>>, moves |-> <<>>, calls |-> <<>>, err |-> "none"]

\* the state an operation on the maps works on
Engine == [maps |-> maps, sync |-> sync, rec |-> rec, host |-> host, log |-> log]

\* every operation on the maps starts with a clean log, noting which
\* operation it is and its arguments
Start(e, op, args) == [e EXCEPT !.log = [Silent EXCEPT !.op = op, !.args = args]]

\* the maps, their synchronizer and the log change; the slider does not
Yields(e) ==
    /\ maps' = e.maps
    /\ sync' = e.sync
    /\ rec' = e.rec
    /\ host' = e.host
    /\ log' = e.log
    /\ UNCHANGED <<opts, ctl, dom, handlers, out>>

\* the JavaScript engine gives up at this many nested listener calls
MaxStack == 3

RECURSIVE jumpTo(_, _, _, _)

\* the 'move' listener of map source in the component that synchronizes by
\* hand: the other map jumps to the viewport of source
syncMaps(e, source, depth) ==
    jumpTo(e, Other(source), e.maps[source].viewport, depth)

\* the 'move' listener of the synchronizer the controller starts: the
\* listeners are detached while the other map is made to jump
syncMove(e, source, depth) ==
    LET detached == [e EXCEPT !.sync.listening = FALSE]
        moved == jumpTo(detached, Other(source), detached.maps[source].viewport, depth)
    IN  IF moved.log.err # "none" THEN moved
        ELSE [moved EXCEPT !.sync.listening = TRUE]

\* map side fires 'move': its listeners run before fire returns
fire(e, side, depth) ==
    LET e1 == [e EXCEPT !.log.moves = Append(@, side)]
    IN  IF ~e1.sync.listening THEN e1
        ELSE IF depth >= MaxStack
        THEN [e1 EXCEPT !.log.err = "RangeError: Maximum call stack size exceeded"]
        ELSE IF e1.sync.kind = "syncMaps"
        THEN syncMaps(e1, side, depth + 1)
        ELSE syncMove(e1, side, depth + 1)

\* map.jumpTo: the viewport is set and 'move' is fired, whether or not the
\* viewport changed
jumpTo(e, side, v, depth) ==
    IF e.log.err # "none" THEN e
    ELSE fire([e EXCEPT !.maps[side].viewport = v], side, depth)

----------------------------------------------------------------------------
(* The map engine: sources and layers of a map's live style *)

\* the position of the layer with this identifier, 0 when there is none
RECURSIVE LayerIndex(_, _, _)
LayerIndex(layers, id, k) ==
    IF k > Len(layers) THEN 0
    ELSE IF layers[k].id = id THEN k
    ELSE LayerIndex(layers, id, k + 1)

LayerIdsOf(style) == {style.layers[k].id : k \in 1..Len(style.layers)}
HasSource(style, id) == style.sources[id].type # "none"

\* map.getLayer(id) and map.getSource(id), as tests
getLayer(e, side, id) == LayerIndex(e.maps[side].style.layers, id, 1) > 0
getSource(e, side, id) == HasSource(e.maps[side].style, id)
\* the live layer that getLayer returns
LiveLayer(e, side, id) ==
    e.maps[side].style.layers[LayerIndex(e.maps[side].style.layers, id, 1)]

\* the call is logged with what the engine found when it was made
Call(e, fn, id, key, value, was) ==
    [e EXCEPT !.log.calls = Append(@, [fn |-> fn, id |-> id, key |-> key, value |-> value, was |-> was])]

\* map.removeLayer(id): a layer that is not there is reported, not thrown
removeLayer(e, side, id) ==
    IF getLayer(e, side, id)
    THEN [Call(e, "removeLayer", id, "", 0, "ok")
            EXCEPT !.maps[side].style.layers = SelectSeq(@, LAMBDA l : l.id # id)]
    ELSE Call(e, "removeLayer", id, "", 0, "missing")

\* map.removeSource(id): refused, and reported, while a layer uses the source
removeSource(e, side, id) ==
    IF ~getSource(e, side, id) THEN Call(e, "removeSource", id, "", 0, "missing")
    ELSE IF \E k \in 1..Len(e.maps[side].style.layers) : e.maps[side].style.layers[k].source = id
    THEN Call(e, "removeSource", id, "", 0, "in use")
    ELSE [Call(e, "removeSource", id, "", 0, "ok") EXCEPT !.maps[side].style.sources[id] = NoSource]

\* map.addSource(id, def): throws when the identifier is taken
addSource(e, side, id, def) ==
    IF getSource(e, side, id)
    THEN [Call(e, "addSource", id, "", def, "exists") EXCEPT !.log.err = "Error: Source already exists."]
    ELSE [Call(e, "addSource", id, "", def, "ok") EXCEPT !.maps[side].style.sources[id] = def]

\* map.addLayer(layer): on top of the others; refused, and reported, when the
\* identifier is taken or the source is not there
addLayer(e, side, layer) ==
    IF getLayer(e, side, layer.id) THEN Call(e, "addLayer", layer.id, "", layer, "exists")
    ELSE IF ~getSource(e, side, layer.source) THEN Call(e, "addLayer", layer.id, "", layer, "no source")
    ELSE [Call(e, "addLayer", layer.id, "", layer, "ok") EXCEPT !.maps[side].style.layers = Append(@, layer)]

\* source.setTiles(urls) on the live raster source
setTiles(e, side, id, urls) ==
    [Call(e, "setTiles", id, "", urls, "ok") EXCEPT !.maps[side].style.sources[id].tiles = urls]

\* map.setPaintProperty(id, key, value)
setPaintProperty(e, side, id, key, value) ==
    LET k == LayerIndex(e.maps[side].style.layers, id, 1)
    IN  [Call(e, "setPaintProperty", id, key, value, "ok")
            EXCEPT !.maps[side].style.layers[k].paint =
                      IF key = "p" THEN [@ EXCEPT !.defined = TRUE, !.p = value]
                      ELSE [@ EXCEPT !.defined = TRUE, !.q = value]]

\* map.setLayoutProperty(id, key, value)
setLayoutProperty(e, side, id, key, value) ==
    LET k == LayerIndex(e.maps[side].style.layers, id, 1)
    IN  IF k = 0 THEN Call(e, "setLayoutProperty", id, key, value, "missing")
        ELSE [Call(e, "setLayoutProperty", id, key, value, "ok")
                EXCEPT !.maps[side].style.layers[k].layout =
                          IF key = "p" THEN [@ EXCEPT !.defined = TRUE, !.p = value]
                          ELSE IF key = "q" THEN [@ EXCEPT !.defined = TRUE, !.q = value]
                          ELSE [@ EXCEPT !.defined = TRUE, !.visibility = value]]

\* map.moveLayer(id): the layer goes on top of the others; a layer that is
\* not there is reported, not thrown
moveLayer(e, side, id) ==
    LET layers == e.maps[side].style.layers
        k == LayerIndex(layers, id, 1)
    IN  IF k = 0 THEN Call(e, "moveLayer", id, "", 0, "missing")
        ELSE [Call(e, "moveLayer", id, "", 0, "ok")
                EXCEPT !.maps[side].style.layers =
                          Append(SelectSeq(layers, LAMBDA l : l.id # id), layers[k])]

\* map.setFilter(id, filter)
setFilter(e, side, id, filter) ==
    LET k == LayerIndex(e.maps[side].style.layers, id, 1)
    IN  [Call(e, "setFilter", id, "", filter, "ok") EXCEPT !.maps[side].style.layers[k].filter = filter]

----------------------------------------------------------------------------
(* The style reconciler: useStyleCompare *)

\* Object.keys(style.sources || {})
SourceKeys(style) == SelectSeq(SourceIds, LAMBDA id : HasSource(style, id))

\* the tiles differ in length or at some position
tilesHaveChanged(newUrls, currentUrls) ==
    \/ Len(newUrls) # Len(currentUrls)
    \/ \E index \in 1..Len(newUrls) : newUrls[index] # currentUrls[index]

\* one step of updateStyle on an element of one of its lists
Step(do, id, def, layer) == [do |-> do, id |-> id, def |-> def, layer |-> layer]

\* Object.entries(props).forEach(([key, value]) => set(id, key, value)), for
\* paint and for layout
setEachPaint(e, side, id, props) ==
    LET e1 == IF props.p # 0 THEN setPaintProperty(e, side, id, "p", props.p) ELSE e
    IN  IF props.q # 0 THEN setPaintProperty(e1, side, id, "q", props.q) ELSE e1

setEachLayout(e, side, id, props) ==
    LET e1 == IF props.p # 0 THEN setLayoutProperty(e, side, id, "p", props.p) ELSE e
        e2 == IF props.q # 0 THEN setLayoutProperty(e1, side, id, "q", props.q) ELSE e1
    IN  IF props.visibility # ""
        THEN setLayoutProperty(e2, side, id, "visibility", props.visibility) ELSE e2

\* a layer of both styles: each property group of the new layer is compared
\* with that of the live layer and set anew when they differ
updateLayer(e, side, newLayer) ==
    IF ~getLayer(e, side, newLayer.id) THEN e
    ELSE
      LET currentLayer == LiveLayer(e, side, newLayer.id)
          e1 == IF newLayer.paint.defined /\ currentLayer.paint # newLayer.paint
                THEN setEachPaint(e, side, newLayer.id, newLayer.paint) ELSE e
          e2 == IF newLayer.layout.defined /\ currentLayer.layout # newLayer.layout
                THEN setEachLayout(e1, side, newLayer.id, newLayer.layout) ELSE e1
      IN  IF newLayer.filter.present /\ currentLayer.filter # newLayer.filter
          THEN setFilter(e2, side, newLayer.id, newLayer.filter) ELSE e2

\* the body of one forEach callback of updateStyle
step(e, side, variant, st) ==
    CASE st.do = "removeLayer" ->
            IF getLayer(e, side, st.id) THEN removeLayer(e, side, st.id) ELSE e
      [] st.do = "removeSource" ->
            IF getSource(e, side, st.id) THEN removeSource(e, side, st.id) ELSE e
      [] st.do = "addSource" ->
            IF variant = "tiles" /\ getSource(e, side, st.id) THEN e
            ELSE addSource(e, side, st.id, st.def)
      [] st.do = "setTiles" ->
            IF getSource(e, side, st.id) /\ e.maps[side].style.sources[st.id].type = "raster"
            THEN setTiles(e, side, st.id, st.def.tiles) ELSE e
      [] st.do = "addLayer" -> addLayer(e, side, st.layer)
      [] st.do = "update" -> updateLayer(e, side, st.layer)

RECURSIVE run(_, _, _, _, _)
\* the callbacks run in order; an exception ends the whole call
run(e, side, variant, steps, k) ==
    IF k > Len(steps) \/ e.log.err # "none" THEN e
    ELSE run(step(e, side, variant, steps[k]), side, variant, steps, k + 1)

Steps(do, ids) == [k \in 1..Len(ids) |-> Step(do, ids[k], NoSource, Plain("", ""))]
LayerSteps(do, layers) == [k \in 1..Len(layers) |-> Step(do, layers[k].id, NoSource, layers[k])]
SourceSteps(do, ids, style) == [k \in 1..Len(ids) |-> Step(do, ids[k], style.sources[ids[k]], Plain("", ""))]

\* sources of the new style only, and of the current style only
sourcesToAdd(currentStyle, newStyle) ==
    SelectSeq(SourceKeys(newStyle), LAMBDA key : ~HasSource(currentStyle, key))
sourcesToRemove(currentStyle, newStyle) ==
    SelectSeq(SourceKeys(currentStyle), LAMBDA key : ~HasSource(newStyle, key))

\* layers of the current style that use a source to remove
dependentLayers(currentStyle, newStyle) ==
    SelectSeq(currentStyle.layers,
              LAMBDA layer : layer.source \in Range(sourcesToRemove(currentStyle, newStyle)))

\* raster sources of both styles whose tiles changed (src/unnamed/part_008 only)
retiledSources(variant, currentStyle, newStyle) ==
    IF variant = "tiles"
    THEN SelectSeq(SourceKeys(newStyle), LAMBDA key :
             /\ HasSource(currentStyle, key)
             /\ newStyle.sources[key].type = "raster"
             /\ currentStyle.sources[key].type = "raster"
             /\ tilesHaveChanged(newStyle.sources[key].tiles, currentStyle.sources[key].tiles))
    ELSE <<>>

\* layers of the current style only, of the new style only, and of both
layersToRemove(currentStyle, newStyle) ==
    SelectSeq(currentStyle.layers, LAMBDA layer : layer.id \notin LayerIdsOf(newStyle))
layersToAdd(currentStyle, newStyle) ==
    SelectSeq(newStyle.layers, LAMBDA layer : layer.id \notin LayerIdsOf(currentStyle))
keptLayers(currentStyle, newStyle) ==
    SelectSeq(newStyle.layers, LAMBDA layer : layer.id \in LayerIdsOf(currentStyle))

\* the new style becomes the baseline: the caller's object itself in variant
\* "plain" (src/src/use/useStyleCompare.ts), a deep copy of it in variant
\* "tiles" (src/unnamed/part_008); not reached when a call threw
storeStyle(done, targetMap, newStyle) ==
    IF done.log.err # "none" THEN done
    ELSE [done EXCEPT !.rec.current[targetMap] = newStyle,
                      !.rec.caller[targetMap] = newStyle,
                      !.rec.aliased[targetMap] = (done.rec.variant = "plain")]

\* updateStyle(targetMap, newStyle)
updateStyle(e, targetMap, newStyle) ==
    LET currentStyle == e.rec.current[targetMap]
        steps == LayerSteps("removeLayer", dependentLayers(currentStyle, newStyle))
                 \o Steps("removeSource", sourcesToRemove(currentStyle, newStyle))
                 \o SourceSteps("addSource", sourcesToAdd(currentStyle, newStyle), newStyle)
                 \o SourceSteps("setTiles", retiledSources(e.rec.variant, currentStyle, newStyle), newStyle)
                 \o LayerSteps("removeLayer", layersToRemove(currentStyle, newStyle))
                 \o LayerSteps("addLayer", layersToAdd(currentStyle, newStyle))
                 \o LayerSteps("update", keptLayers(currentStyle, newStyle))
    IN  storeStyle(run(e, targetMap, e.rec.variant, steps, 1), targetMap, newStyle)

\* getCurrentStyle(target)
getCurrentStyle(e, target) == e.rec.current[target]

\* useStyleCompare({ mapA, mapB, baseStyleA, baseStyleB }): the baselines
\* are the objects passed in
useStyleCompare(variant, baseStyleA, baseStyleB) ==
    [variant |-> variant,
     current |-> [side \in Sides |-> IF side = "A" THEN baseStyleA ELSE baseStyleB],
     aliased |-> [side \in Sides |-> TRUE],
     caller |-> [side \in Sides |-> IF side = "A" THEN baseStyleA ELSE baseStyleB]]

----------------------------------------------------------------------------
(* The layer visibility engine: updateLayerVisibility of the components *)

\* map.isStyleLoaded()
isStyleLoaded(e, side) == e.maps[side].loaded

\* the callback of style.layers.forEach that shows the listed layers only
setVisibility_hidesOnly(e, side, enabledLayers, layer) ==
    IF layer.id \in Range(enabledLayers) THEN e
    ELSE setLayoutProperty(e, side, layer.id, "visibility", "none")

\* the callback of style.layers.forEach: a layer of the list is made
\* visible, any other layer is hidden
setVisibility(e, side, enabledLayers, layer) ==
    IF layer.id \in Range(enabledLayers)
    THEN setLayoutProperty(e, side, layer.id, "visibility", "visible")
    ELSE setLayoutProperty(e, side, layer.id, "visibility", "none")

RECURSIVE eachLayer(_, _, _, _, _)
\* style.layers.forEach over the layers that map.getStyle() returned
eachLayer(e, side, enabledLayers, layers, k) ==
    IF k > Len(layers) THEN e
    ELSE eachLayer(setVisibility(e, side, enabledLayers, layers[k]), side, enabledLayers, layers, k + 1)

\* updateLayerVisibility(mapType): nothing without a map or before its style
\* is loaded, nothing for an empty list
updateLayerVisibility(e, mapType) ==
    LET enabledLayers == e.host.mapLayers[mapType]
    IN  IF ~e.maps[mapType].alive \/ ~isStyleLoaded(e, mapType) THEN e
        ELSE IF Len(enabledLayers) > 0
        THEN eachLayer(e, mapType, enabledLayers, e.maps[mapType].style.layers, 1)
        ELSE e

----------------------------------------------------------------------------
(* The layer ordering engine: updateLayerOrdering of the components *)

\* [...enabledLayers].reverse()
Reverse(list) == [k \in 1..Len(list) |-> list[Len(list) + 1 - k]]

\* the callback of orderedLayers.forEach that moves whatever is listed
moveListed_unchecked(e, side, layersInStyle, layerId) == moveLayer(e, side, layerId)

\* the callback of orderedLayers.forEach: a listed layer that the style had
\* is moved to the top
moveListed(e, side, layersInStyle, layerId) ==
    IF LayerIndex(layersInStyle, layerId, 1) > 0 THEN moveLayer(e, side, layerId) ELSE e

RECURSIVE eachListed(_, _, _, _, _)
\* orderedLayers.forEach
eachListed(e, side, layersInStyle, orderedLayers, k) ==
    IF k > Len(orderedLayers) THEN e
    ELSE eachListed(moveListed(e, side, layersInStyle, orderedLayers[k]),
                    side, layersInStyle, orderedLayers, k + 1)

\* the list as it is for 'topmost', reversed for 'bottommost'
orderedLayers_asListed(enabledLayers, layerOrder) == enabledLayers

orderedLayers(enabledLayers, layerOrder) ==
    IF layerOrder = "topmost" THEN enabledLayers ELSE Reverse(enabledLayers)

\* updateLayerOrdering(mapType) that does not ask whether the style is loaded
updateLayerOrdering_unguarded(e, mapType) ==
    LET enabledLayers == e.host.mapLayers[mapType]
    IN  IF ~e.maps[mapType].alive THEN e
        ELSE IF Len(enabledLayers) = 0 THEN e
        ELSE eachListed(e, mapType, e.maps[mapType].style.layers,
                        orderedLayers(enabledLayers, e.host.layerOrder), 1)

\* updateLayerOrdering(mapType): nothing without a map or before its style
\* is loaded, nothing for an empty list
updateLayerOrdering(e, mapType) ==
    LET enabledLayers == e.host.mapLayers[mapType]
    IN  IF ~e.maps[mapType].alive \/ ~isStyleLoaded(e, mapType) THEN e
        ELSE IF Len(enabledLayers) = 0 THEN e
        ELSE eachListed(e, mapType, e.maps[mapType].style.layers,
                        orderedLayers(enabledLayers, e.host.layerOrder), 1)

----------------------------------------------------------------------------
(* The initial state: a controller just returned by useMapCompare *)

Options == [orientation : {"vertical", "horizontal"},
            mousemove : BOOLEAN,
            container : {"element", "selector", "null"},
            variant : {"clipPath", "clip"}]

\* the closure variables of useMapCompare before initialize()
NewController == [swiper |-> FALSE, controlContainer |-> FALSE, bounds |-> NoRect,
                  currentPosition |-> NoNumber, clearSync |-> FALSE,
                  resizeHandler |-> FALSE, isInitialized |-> FALSE]

\* the page before the controller touched it, the container laid out as r
Page(r) == [rect |-> r, overlays |-> 0, swipers |-> 0,
            transform |-> NoNumber, overlayPointerEvents |-> Null,
            swiperPointerEvents |-> Null, clipA |-> NoClip, clipB |-> NoClip,
            swiperListeners |-> {}, docListeners |-> {}, mapMoveListeners |-> {},
            userSelect |-> "", resizeListeners |-> 0, syncs |-> 0,
            pressed |-> {}]

Init ==
    /\ opts \in Options
    /\ ctl = NewController
    /\ \E r \in Rects(opts.orientation) : dom = Page(r)
    /\ handlers = NoEvents
    /\ out = Quiet
    /\ maps = TwoMaps(Home)
    /\ sync = NoSync
    /\ rec = NoReconciler
    /\ host = NewHost("A")
    /\ log = Silent

----------------------------------------------------------------------------
(* Steps: calls of the public API *)

\* the selector, if the container is one, matches an element of the page or not
Initialize == \E found \in BOOLEAN : Becomes(initialize(Begin(World, "initialize", <<>>), found))

Unmount == Becomes(unmount(Begin(World, "unmount", <<>>)))

SetSlider == \E x \in Positions : Becomes(setSlider(Begin(World, "setSlider", <<x>>), x))

On == \E fn \in Handlers :
        /\ Len(handlers["slideend"]) < MaxHandlers
        /\ Becomes(EmitterOn(Begin(World, "on", <<>>), "slideend", fn))

Off == \E fn \in Handlers : Becomes(EmitterOff(Begin(World, "off", <<>>), "slideend", fn))

(* Steps: events the browser and the map deliver *)

MouseEvent(x, y) == [touches |-> FALSE, clientX |-> x, clientY |-> y]
TouchEvent(x, y) == [touches |-> TRUE, clientX |-> x, clientY |-> y]

\* the swiper can be hit only while it takes pointer events
SwiperMouseDown ==
    /\ "mousedown" \in dom.swiperListeners
    /\ dom.swiperPointerEvents = "auto"
    /\ Becomes([onDown(Begin(World, "mousedown", <<>>), MouseEvent(0, 0))
                  EXCEPT !.dom.pressed = @ \cup {"mouse"}])

SwiperTouchStart ==
    /\ "touchstart" \in dom.swiperListeners
    /\ dom.swiperPointerEvents = "auto"
    /\ Becomes([onDown(Begin(World, "touchstart", <<>>), TouchEvent(0, 0))
                  EXCEPT !.dom.pressed = @ \cup {"touch"}])

DocMouseMove ==
    /\ "mousemove" \in dom.docListeners
    /\ \E x \in Coords : \E y \in {Mirror(x)} :
          Becomes(onMove(Begin(World, "mousemove", <<x, y>>), MouseEvent(x, y)))

DocTouchMove ==
    /\ "touchmove" \in dom.docListeners
    /\ \E x \in Coords : \E y \in {Mirror(x)} :
          Becomes(onMove(Begin(World, "touchmove", <<x, y>>), TouchEvent(x, y)))

\* with the mousemove option: the pointer moves over one of the maps
MapMouseMove ==
    /\ dom.mapMoveListeners # {}
    /\ \E x \in Coords : \E y \in {Mirror(x)} :
          /\ x - dom.rect.left \in 0..dom.rect.width
          /\ y - dom.rect.top \in 0..dom.rect.height
          /\ Becomes(onMove(Begin(World, "mousemove", <<x, y>>), MouseEvent(x, y)))

DocMouseUp ==
    /\ "mouseup" \in dom.docListeners
    /\ Becomes([onMouseUp(Begin(World, "mouseup", <<>>)) EXCEPT !.dom.pressed = @ \ {"mouse"}])

DocTouchEnd ==
    /\ "touchend" \in dom.docListeners
    /\ Becomes([onTouchEnd(Begin(World, "touchend", <<>>)) EXCEPT !.dom.pressed = @ \ {"touch"}])

\* map B fires 'resize': every registered resize listener runs
MapResize ==
    /\ dom.resizeListeners > 0
    /\ Becomes(resizeHandler(Begin(World, "resize", <<>>)))

\* the page lays the comparison container out anew
Relayout ==
    \E r \in Rects(opts.orientation) :
        /\ r # dom.rect
        /\ Becomes([Begin(World, "layout", <<>>) EXCEPT !.dom.rect = r])

Next ==
    \/ Initialize
    \/ Unmount
    \/ SetSlider
    \/ On
    \/ Off
    \/ SwiperMouseDown
    \/ SwiperTouchStart
    \/ DocMouseMove
    \/ DocTouchMove
    \/ MapMouseMove
    \/ DocMouseUp
    \/ DocTouchEnd
    \/ MapResize
    \/ Relayout

Spec == Init /\ [][Next]_vars

TypeOK ==
    /\ opts \in Options
    /\ ctl.isInitialized \in BOOLEAN
    /\ dom.rect \in Rects(opts.orientation)
    /\ ctl.bounds \in Rects(opts.orientation) \cup {NoRect}

----------------------------------------------------------------------------
(* The event emitter on its own: one controller in a fixed layout, any      *)
(* registrations, and the drags that make it emit                           *)

\* at most this many registrations are held at a time, over all event types
MaxRegistrations == 3
\* two handlers that only take note of the call, and one that unregisters
\* itself when called
EmitterHandlers == {"h1", "h2"} \cup SelfRemoving

Registrations == Len(handlers["slideend"]) + Len(handlers["moved"])

InitEmitter ==
    /\ opts = [orientation |-> "vertical", mousemove |-> FALSE,
               container |-> "element", variant |-> "clipPath"]
    /\ ctl = NewController
    /\ dom = Page([left |-> Offset, top |-> Offset, width |-> MaxDim, height |-> Across])
    /\ handlers = NoEvents
    /\ out = Quiet
    /\ maps = TwoMaps(Home)
    /\ sync = NoSync
    /\ rec = NoReconciler
    /\ host = NewHost("A")
    /\ log = Silent

OnAny == \E type \in EventTypes : \E fn \in EmitterHandlers :
            /\ Registrations < MaxRegistrations
            /\ Becomes(EmitterOn(Begin(World, "on", <<type, fn>>), type, fn))

OffAny == \E type \in EventTypes : \E fn \in EmitterHandlers :
            Becomes(EmitterOff(Begin(World, "off", <<type, fn>>), type, fn))

NextEmitter ==
    \/ Initialize
    \/ OnAny
    \/ OffAny
    \/ SwiperMouseDown
    \/ SwiperTouchStart
    \/ DocMouseUp
    \/ DocTouchEnd

SpecEmitter == InitEmitter /\ [][NextEmitter]_vars

----------------------------------------------------------------------------
(* The viewport synchronizer on its own: two maps created at one viewport   *)
(* and synchronized, by hand or by the synchronizer of the controller       *)

InitSync ==
    /\ opts = [orientation |-> "vertical", mousemove |-> FALSE,
               container |-> "element", variant |-> "clipPath"]
    /\ ctl = NewController
    /\ dom = Page([left |-> Offset, top |-> Offset, width |-> MaxDim, height |-> Across])
    /\ handlers = NoEvents
    /\ out = Quiet
    /\ \E v \in Viewports : maps = TwoMaps(v)
    /\ \E kind \in {"syncMaps", "syncMove"} : sync = [kind |-> kind, listening |-> TRUE]
    /\ rec = NoReconciler
    /\ host = NewHost("A")
    /\ log = Silent

\* the user pans, zooms, rotates or tilts one of the maps
UserMove == \E side \in Sides : \E v \in Viewports :
    /\ v # maps[side].viewport
    /\ Yields(jumpTo(Start(Engine, "move", <<side, v>>), side, v, 0))

\* unmount() of the controller calls the disposer of its synchronizer
ClearSync ==
    /\ sync.kind = "syncMove"
    /\ sync.listening
    /\ Yields([Start(Engine, "clearSync", <<>>) EXCEPT !.sync.listening = FALSE])

\* initialize() of the controller starts its synchronizer
StartSync ==
    /\ sync.kind = "syncMove"
    /\ ~sync.listening
    /\ Yields([Start(Engine, "syncMove", <<>>) EXCEPT !.sync.listening = TRUE])

NextSync ==
    \/ UserMove
    \/ ClearSync
    \/ StartSync

SpecSync == InitSync /\ [][NextSync]_vars

----------------------------------------------------------------------------
(* The style reconciler on its own: two maps showing one style, a           *)
(* reconciler created for them, and a host that reconciles one of the       *)
(* sides and edits the style objects it passed                              *)

T1 == <<"t1">>
T2 == <<"t2">>
T12 == <<"t1", "t2">>

Sources(a, b) == [id \in Range(SourceIds) |-> IF id = "a" THEN a ELSE b]

\* the layer lists over plain layers L (on any of the sources there are) and
\* M (on source a), in any order
LayerLists(sources) ==
    LET ls == {Plain("L", id) : id \in {id \in Range(SourceIds) : sources[id].type # "none"}}
        ms == IF sources["a"].type # "none" THEN {Plain("M", "a")} ELSE {}
    IN  {<<>>} \cup {<<l>> : l \in ls} \cup {<<m>> : m \in ms}
        \cup {<<l, m>> : l \in ls, m \in ms} \cup {<<m, l>> : l \in ls, m \in ms}

\* styles that differ in the sources and layers they have
StructureStyles ==
    UNION {{Style(Sources(a, b), layers) : layers \in LayerLists(Sources(a, b))} :
               a \in {NoSource, Raster(T1)}, b \in {NoSource, GeoJson}}

\* styles that differ in the tiles of raster source a
TileStyles ==
    {Style(Sources(a, NoSource), <<Plain("L", "a")>>) : a \in {Raster(T2), Raster(T12)}}

\* styles that differ in one property group of their one layer
PropertyStyles ==
    {Style(Sources(Raster(T1), NoSource), <<Layer("L", "a", paint, Undefined, NoFilter)>>) :
        paint \in {Props(1, 0), Props(2, 0), Props(1, 1)}}
    \cup {Style(Sources(Raster(T1), NoSource), <<Layer("L", "a", Undefined, layout, NoFilter)>>) :
        layout \in {Props(1, 0), Props(2, 0)}}
    \cup {Style(Sources(Raster(T1), NoSource), <<Layer("L", "a", Undefined, Undefined, filter)>>) :
        filter \in {Filter("f1"), Filter("f2")}}

Styles == StructureStyles \cup TileStyles \cup PropertyStyles

\* in-place edits of a style object by the code that holds it
Edits == {"pop", "clear"}
Edited(style, edit) ==
    IF edit = "pop"
    THEN [style EXCEPT !.layers = SubSeq(@, 1, Len(@) - 1)]
    ELSE EmptyStyle

\* the caller edits the style object it passed for a side; a baseline that
\* is that object changes with it
mutate(e, side, edit) ==
    LET edited == Edited(e.rec.caller[side], edit)
    IN  [e EXCEPT !.rec.caller[side] = edited,
                  !.rec.current[side] = IF e.rec.aliased[side] THEN edited ELSE @]

\* both maps show style s, and the reconciler is created with s as the base
\* style of both sides; target is the side the host goes on to reconcile
InitStyle ==
    /\ opts = [orientation |-> "vertical", mousemove |-> FALSE,
               container |-> "element", variant |-> "clipPath"]
    /\ ctl = NewController
    /\ dom = Page([left |-> Offset, top |-> Offset, width |-> MaxDim, height |-> Across])
    /\ handlers = NoEvents
    /\ out = Quiet
    /\ sync = NoSync
    /\ \E s \in Styles : \E variant \in {"plain", "tiles"} :
          /\ maps = [side \in Sides |-> Handle(Home, s)]
          /\ rec = useStyleCompare(variant, s, s)
    /\ \E target \in Sides : host = NewHost(target)
    /\ log = Silent

\* the host reconciles at most this many styles, and edits a style object
\* it passed at most once
MaxUpdates == 2

UpdateStyle == \E newStyle \in Styles :
    /\ host.updates < MaxUpdates
    /\ Yields([updateStyle(Start(Engine, "updateStyle", <<host.target, newStyle>>), host.target, newStyle)
                 EXCEPT !.host.updates = @ + 1])

MutateStyle == \E edit \in Edits :
    /\ ~host.edited
    /\ Edited(rec.caller[host.target], edit) # rec.caller[host.target]
    /\ Yields([mutate(Start(Engine, "mutate", <<host.target, edit>>), host.target, edit)
                 EXCEPT !.host.edited = TRUE])

NextStyle ==
    \/ UpdateStyle
    \/ MutateStyle

SpecStyle == InitStyle /\ [][NextStyle]_vars

----------------------------------------------------------------------------
(* The comparison component and its layer allow-lists: the maps are created *)
(* from the style props and load; the host changes the allow-list props     *)

\* the styles the maps are created with
LayerStyles ==
    {Style(Sources(Raster(T1), NoSource), layers) :
        layers \in {<<>>, <<Plain("L", "a")>>, <<Plain("L", "a"), Plain("M", "a")>>}}

\* the allow-lists the host passes; x names no layer
AllowLists == {<<>>, <<"L">>, <<"M", "L">>, <<"x">>, <<"x", "M">>}

\* the state when initializeMaps waits for the maps to load: both maps are
\* created from the style props, neither is loaded
InitLayers ==
    /\ opts = [orientation |-> "vertical", mousemove |-> FALSE,
               container |-> "element", variant |-> "clipPath"]
    /\ ctl = NewController
    /\ dom = Page([left |-> Offset, top |-> Offset, width |-> MaxDim, height |-> Across])
    /\ handlers = NoEvents
    /\ out = Quiet
    /\ \E mapStyleA \in LayerStyles : \E mapStyleB \in LayerStyles :
          maps = [side \in Sides |->
                    [Handle(Home, IF side = "A" THEN mapStyleA ELSE mapStyleB) EXCEPT !.loaded = FALSE]]
    /\ sync = NoSync
    /\ rec = NoReconciler
    /\ \E mapLayersA \in AllowLists : \E mapLayersB \in AllowLists :
          host = [NewHost("A") EXCEPT !.phase = "loading",
                                      !.mapLayers = [side \in Sides |-> IF side = "A" THEN mapLayersA
                                                                        ELSE mapLayersB]]
    /\ log = Silent

\* the controller and the maps both change
Gives(w, e) ==
    /\ opts' = w.opts
    /\ ctl' = w.ctl
    /\ dom' = w.dom
    /\ handlers' = w.handlers
    /\ out' = w.out
    /\ maps' = e.maps
    /\ sync' = e.sync
    /\ rec' = e.rec
    /\ host' = e.host
    /\ log' = e.log

\* a map fires 'load'; when both have, initializeMaps goes on: the slider
\* controller is created and initialized and the allow-lists are applied
MapLoads == \E side \in Sides :
    /\ host.phase = "loading"
    /\ ~maps[side].loaded
    /\ LET e == [Start(Engine, "load", <<side>>) EXCEPT !.maps[side].loaded = TRUE]
       IN  IF e.maps[Other(side)].loaded
           THEN Gives(initialize(Begin(World, "initialize", <<>>), TRUE),
                      [updateLayerVisibility(updateLayerVisibility(e, "A"), "B")
                         EXCEPT !.host.phase = "ready"])
           ELSE Yields(e)

\* the host passes a new allow-list for a side: the watcher of the prop runs
SetMapLayers == \E side \in Sides : \E list \in AllowLists :
    /\ host.phase \in {"loading", "ready"}
    /\ Yields(updateLayerVisibility(
                 [Start(Engine, "mapLayers", <<side, list>>) EXCEPT !.host.mapLayers[side] = list],
                 side))

\* the style of a map starts to load again, or is loaded again
StyleLoading == \E side \in Sides :
    /\ host.phase = "ready"
    /\ Yields([Start(Engine, "style", <<side>>) EXCEPT !.maps[side].loaded = ~@])

\* onBeforeUnmount: the controller, if there is one, is unmounted and the
\* maps are removed
UnmountMaps ==
    /\ host.phase \in {"loading", "ready"}
    /\ LET e == [Start(Engine, "unmountMaps", <<>>)
                   EXCEPT !.maps = [side \in Sides |-> [@[side] EXCEPT !.alive = FALSE, !.loaded = FALSE]],
                          !.host.phase = "unmounted"]
       IN  IF host.phase = "ready"
           THEN Gives(unmount(Begin(World, "unmount", <<>>)), e)
           ELSE Yields(e)

NextLayers ==
    \/ MapLoads
    \/ SetMapLayers
    \/ StyleLoading
    \/ UnmountMaps

SpecLayers == InitLayers /\ [][NextLayers]_vars

----------------------------------------------------------------------------
(* The comparison component with an order policy (src/unnamed/part_004):   *)
(* allow-lists hide and reorder layers, the slider's slide-end is passed on *)

LayerOrders == {"topmost", "bottommost"}

\* the state initializeMaps leaves when it returns: either it waits for the
\* maps to load, or it found an element missing and created no map ("absent",
\* mapA and mapB stay null); the host gave an allow-list for one side, the
\* target, and goes on to change that one
InitOrder ==
    /\ opts = [orientation |-> "vertical", mousemove |-> FALSE,
               container |-> "element", variant |-> "clipPath"]
    /\ ctl = NewController
    /\ dom = Page([left |-> Offset, top |-> Offset, width |-> MaxDim, height |-> Across])
    /\ handlers = NoEvents
    /\ out = Quiet
    /\ sync = NoSync
    /\ rec = NoReconciler
    /\ \E created \in BOOLEAN :
          /\ \E mapStyleA \in LayerStyles : \E mapStyleB \in LayerStyles :
                maps = [side \in Sides |->
                          [Handle(Home, IF side = "A" THEN mapStyleA ELSE mapStyleB)
                             EXCEPT !.loaded = FALSE, !.alive = created]]
          /\ \E target \in Sides : \E list \in AllowLists : \E layerOrder \in LayerOrders :
                host = [NewHost(target) EXCEPT !.phase = IF created THEN "loading" ELSE "absent",
                                               !.layerOrder = layerOrder,
                                               !.mapLayers[target] = list]
    /\ log = Silent

\* initializeSwiper(): a controller that exists loses the handler of
\* slide-end and is unmounted; a controller is created and initialized, and
\* the handler of slide-end is registered
initializeSwiper(w) ==
    LET old == unmount(EmitterOff(w, "slideend", SliderEndHandler))
    IN  EmitterOn(initialize([old EXCEPT !.ctl = NewController, !.handlers = NoEvents], TRUE),
                  "slideend", SliderEndHandler)

\* updateLayerVisibility and updateLayerOrdering of a side, as the watchers
\* and initializeMaps call them
applyLayers(e, mapType) == updateLayerOrdering(updateLayerVisibility(e, mapType), mapType)

\* a map fires 'load'; when both have, initializeMaps goes on: the maps are
\* resized, the slider is initialized, the allow-lists are applied and the
\* style reconciler is created from the styles the maps then have
OrderMapLoads == \E side \in Sides :
    /\ host.phase = "loading"
    /\ ~maps[side].loaded
    /\ \E e \in {[Start(Engine, "load", <<side>>) EXCEPT !.maps[side].loaded = TRUE]} :
          IF e.maps[Other(side)].loaded
          THEN \E applied \in {applyLayers(applyLayers(e, "A"), "B")} :
               \E w \in {initializeSwiper(Begin(World, "initialize", <<>>))} :
                  Gives(w, [applied EXCEPT !.host.phase = "ready",
                                           !.rec = useStyleCompare("plain", applied.maps["A"].style,
                                                                   applied.maps["B"].style)])
          ELSE Yields(e)

\* the host passes a new allow-list for its side: the watcher of the prop
\* runs
OrderSetMapLayers == \E list \in AllowLists :
    /\ host.phase \in {"absent", "loading", "ready"}
    /\ Yields(applyLayers(
                 [Start(Engine, "mapLayers", <<host.target, list>>) EXCEPT !.host.mapLayers[host.target] = list],
                 host.target))

\* the host passes another order policy: the watcher of the prop runs
SetLayerOrder == \E layerOrder \in LayerOrders :
    /\ host.phase \in {"absent", "loading", "ready"}
    /\ layerOrder # host.layerOrder
    /\ Yields(updateLayerOrdering(
                 updateLayerOrdering(
                    [Start(Engine, "layerOrder", <<layerOrder>>) EXCEPT !.host.layerOrder = layerOrder],
                    "A"),
                 "B"))

\* onBeforeUnmount: the handler of slide-end is removed, the controller, if
\* there is one, is unmounted and the maps are removed
OrderUnmount ==
    /\ host.phase \in {"absent", "loading", "ready"}
    /\ LET e == [Start(Engine, "unmountMaps", <<>>)
                   EXCEPT !.maps = [side \in Sides |-> [@[side] EXCEPT !.alive = FALSE, !.loaded = FALSE]],
                          !.host.phase = "unmounted"]
       IN  IF host.phase = "ready"
           THEN Gives(unmount(EmitterOff(Begin(World, "unmount", <<>>), "slideend", SliderEndHandler)), e)
           ELSE Yields(e)

NextOrder ==
    \/ OrderMapLoads
    \/ OrderSetMapLayers
    \/ SetLayerOrder
    \/ StyleLoading
    \/ OrderUnmount

SpecOrder == InitOrder /\ [][NextOrder]_vars

----------------------------------------------------------------------------
(* The comparison component that can be switched on and off                 *)
(* (src/src/components/ToggleCompare.vue): map A is always there, map B and *)
(* the slider exist while compareEnabled is set.  host.awaits holds the     *)
(* suspended calls: "A" is initializeMapA waiting for the load of map A,    *)
(* "B" is initializeMapB waiting for the load of the map that mapB holds,   *)
(* "orphan" is an initializeMapB waiting for the load of a map that mapB    *)
(* no longer holds, "tick1" and "tick2" are an initializeMapB that the load *)
(* resumed and that waits at its first or second nextTick()                 *)

\* the state when initializeMapA, called on mount, waits for map A to load
InitToggle ==
    /\ opts = [orientation |-> "vertical", mousemove |-> FALSE,
               container |-> "element", variant |-> "clipPath"]
    /\ ctl = NewController
    /\ dom = Page([left |-> Offset, top |-> Offset, width |-> MaxDim, height |-> Across])
    /\ handlers = NoEvents
    /\ out = Quiet
    /\ sync = NoSync
    /\ rec = NoReconciler
    /\ \E mapStyleA \in LayerStyles : \E mapStyleB \in LayerStyles :
       \E target \in Sides : \E list \in AllowLists : \E compareEnabled \in BOOLEAN :
          /\ maps = [side \in Sides |->
                       IF side = "A"
                       THEN [Handle(Home, mapStyleA) EXCEPT !.loaded = FALSE]
                       ELSE [Handle(Home, mapStyleB) EXCEPT !.loaded = FALSE, !.alive = FALSE]]
          /\ host = [NewHost(target) EXCEPT !.phase = "mounted",
                                            !.compareEnabled = compareEnabled,
                                            !.mapStyleB = mapStyleB,
                                            !.mapLayers[target] = list,
                                            !.awaits = {"A"}]
    /\ log = Silent

\* initializeSwiper() of the component: nothing without both maps or with
\* the comparison off; a controller that exists is unmounted, a new one is
\* created and initialized
toggleSwiper_keepsOld(w, e) ==
    IF ~e.maps["A"].alive \/ ~e.maps["B"].alive \/ ~e.host.compareEnabled
    THEN w
    ELSE initialize([w EXCEPT !.ctl = NewController,
                              !.opts.orientation = e.host.orientation], TRUE)

toggleSwiper(w, e) ==
    IF ~e.maps["A"].alive \/ ~e.maps["B"].alive \/ ~e.host.compareEnabled
    THEN w
    ELSE initialize([unmount(w) EXCEPT !.ctl = NewController,
                                       !.opts.orientation = e.host.orientation], TRUE)

\* whether initializeSwiper() gets as far as initialize()
swiperInitialized(e) == e.maps["A"].alive /\ e.maps["B"].alive /\ e.host.compareEnabled

\* initializeMapB() up to its wait for the load: nothing without map A;
\* a map is created from the style prop and assigned to mapB; a map that
\* mapB held is not removed, and if it has not loaded it keeps its
\* suspended call
initializeMapB(e) ==
    IF ~e.maps["A"].alive
    THEN e
    ELSE [e EXCEPT !.maps["B"] = [Handle(e.maps["A"].viewport, e.host.mapStyleB) EXCEPT !.loaded = FALSE],
                   !.host.awaits = (IF "B" \in @ THEN @ \cup {"orphan"} ELSE @) \cup {"B"},
                   !.host.orphans = IF e.maps["B"].alive THEN @ + 1 ELSE @]

\* the steps of initializeMapB() that wait at a nextTick(): a tick is a
\* microtask, so what can run before the call resumes is what was queued
\* before it, the watchers of props and the unmounting, and no load of a map
Ticks == {"tick1", "tick2"}

\* initializeMapB() between its two ticks: both maps are resized, through
\* handles that are null when the component was unmounted or the comparison
\* switched off meanwhile
resizeMaps(e) ==
    IF ~e.maps["A"].alive \/ ~e.maps["B"].alive
    THEN [e EXCEPT !.log.err = "TypeError"]
    ELSE [e EXCEPT !.host.awaits = @ \cup {"tick2"}]

\* initializeMapB() after its second tick: once initializeSwiper() is done
\* the allow-list of B is applied and the style reconciler is created;
\* mapB is null when the comparison was switched off meanwhile
afterLoadB(e) ==
    IF ~e.maps["B"].alive
    THEN [e EXCEPT !.log.err = "TypeError"]
    ELSE LET applied == applyLayers(e, "B")
         IN  [applied EXCEPT !.rec = useStyleCompare("plain", applied.maps["A"].style,
                                                     applied.maps["B"].style)]

\* initializeMapA() after its wait, and the rest of initializeMaps(): map A
\* is resized and its allow-list applied, then initializeMapB() is called
\* when the comparison is on
afterLoadA(e) ==
    LET applied == applyLayers(e, "A")
    IN  IF applied.host.compareEnabled THEN initializeMapB(applied) ELSE applied

\* cleanupComparison(): the style reconciler is dropped and map B removed;
\* the call that waits for its load never resumes
cleanupComparison(e) ==
    [e EXCEPT !.rec = NoReconciler,
              !.maps["B"].alive = FALSE,
              !.maps["B"].loaded = FALSE,
              !.host.awaits = @ \ {"B"}]

\* a map that a handle holds fires 'load'; the call that waits for it, if
\* it is still suspended, goes on: initializeMapA() to its end and into
\* initializeMaps(), initializeMapB() to its first tick
ToggleMapLoads == \E side \in Sides :
    /\ host.phase = "mounted"
    /\ host.awaits \cap Ticks = {}
    /\ maps[side].alive
    /\ ~maps[side].loaded
    /\ LET e == [Start(Engine, "load", <<side>>) EXCEPT !.maps[side].loaded = TRUE,
                                                        !.host.awaits = @ \ {side}]
       IN  IF side \notin host.awaits
           THEN Gives(Begin(World, "none", <<>>), e)
           ELSE IF side = "A"
           THEN Gives(Begin(World, "none", <<>>), afterLoadA(e))
           ELSE Gives(Begin(World, "none", <<>>), [e EXCEPT !.host.awaits = @ \cup {"tick1"}])

\* a map that mapB no longer holds, and that nothing removes, fires 'load':
\* its initializeMapB() goes on to its first tick
OrphanLoads ==
    /\ "orphan" \in host.awaits
    /\ host.awaits \cap Ticks = {}
    /\ Gives(Begin(World, "none", <<>>),
             [Start(Engine, "load", <<"orphan">>)
                EXCEPT !.host.awaits = (@ \ {"orphan"}) \cup {"tick1"}])

\* an initializeMapB() that waits at a tick resumes, with the maps that
\* mapA and mapB hold by now
ToggleTick == \E tick \in host.awaits \cap Ticks :
    LET e == [Start(Engine, "tick", <<tick>>) EXCEPT !.host.awaits = @ \ {tick}]
    IN  IF tick = "tick1"
        THEN Gives(Begin(World, "none", <<>>), resizeMaps(e))
        ELSE Gives(IF swiperInitialized(e)
                   THEN toggleSwiper(Begin(World, "initialize", <<>>), e)
                   ELSE Begin(World, "none", <<>>),
                   afterLoadB(e))

\* the host switches the comparison on or off: the watcher of the prop runs
SetCompareEnabled ==
    /\ host.phase = "mounted"
    /\ LET e == [Start(Engine, "compareEnabled", <<~host.compareEnabled>>)
                   EXCEPT !.host.compareEnabled = ~@]
       IN  IF e.host.compareEnabled /\ maps["A"].alive /\ ~maps["B"].alive
           THEN Gives(Begin(World, "none", <<>>), initializeMapB(e))
           ELSE IF ~e.host.compareEnabled /\ maps["B"].alive
           THEN Gives([unmount(Begin(World, "unmount", <<>>)) EXCEPT !.ctl = NewController],
                      cleanupComparison(e))
           ELSE Gives(Begin(World, "none", <<>>), e)

\* the host passes a new allow-list for its side: the watcher of the prop
\* runs, for B only while the comparison is on and map B exists
ToggleSetMapLayers == \E list \in AllowLists :
    /\ host.phase = "mounted"
    /\ LET e == [Start(Engine, "mapLayers", <<host.target, list>>)
                   EXCEPT !.host.mapLayers[host.target] = list]
       IN  Gives(Begin(World, "none", <<>>),
                 IF host.target = "A" \/ (host.compareEnabled /\ maps["B"].alive)
                 THEN applyLayers(e, host.target)
                 ELSE e)

\* onBeforeUnmount: the controller is unmounted and the maps are removed
ToggleUnmount ==
    /\ host.phase = "mounted"
    /\ Gives(unmount(Begin(World, "unmount", <<>>)),
             [Start(Engine, "unmountMaps", <<>>)
                EXCEPT !.maps = [side \in Sides |-> [@[side] EXCEPT !.alive = FALSE, !.loaded = FALSE]],
                       !.host.phase = "unmounted"])

\* the maps of side B that exist: those constructed and not removed
LiveMapsB == host.orphans + (IF maps["B"].alive THEN 1 ELSE 0)

\* the host passes another orientation: the watcher of the prop runs, and
\* initializes the slider again when the comparison is on and both maps are
\* there and loaded
ToggleSetOrientation == \E orientation \in {"vertical", "horizontal"} :
    /\ host.phase = "mounted"
    /\ orientation # host.orientation
    /\ LET e == [Start(Engine, "orientation", <<orientation>>) EXCEPT !.host.orientation = orientation]
       IN  Gives(IF host.compareEnabled /\ \A side \in Sides : maps[side].alive /\ maps[side].loaded
                 THEN toggleSwiper(Begin(World, "initialize", <<>>), e)
                 ELSE Begin(World, "none", <<>>),
                 e)

NextToggle ==
    \/ ToggleMapLoads
    \/ ToggleSetOrientation
    \/ OrphanLoads
    \/ ToggleTick
    \/ SetCompareEnabled
    \/ ToggleSetMapLayers
    \/ ToggleUnmount

SpecToggle == InitToggle /\ [][NextToggle]_vars

----------------------------------------------------------------------------
(* The comparison component and its style props (src/unnamed/part_004):    *)
(* the maps are created from the props and load, the style reconciler is   *)
(* created once both have loaded, and the host changes the style of a side *)

\* the style prop of a side, as the host gave it last
styleProp(e, side) == IF side = "A" THEN e.host.mapStyleA ELSE e.host.mapStyleB

\* the state when initializeMaps waits for the maps to load: each map was
\* created from the style prop of its side
InitWatch ==
    /\ opts = [orientation |-> "vertical", mousemove |-> FALSE,
               container |-> "element", variant |-> "clipPath"]
    /\ ctl = NewController
    /\ dom = Page([left |-> Offset, top |-> Offset, width |-> MaxDim, height |-> Across])
    /\ handlers = NoEvents
    /\ out = Quiet
    /\ sync = NoSync
    /\ rec = NoReconciler
    /\ \E mapStyleA \in LayerStyles : \E mapStyleB \in LayerStyles :
       \E target \in Sides : \E list \in AllowLists :
          /\ maps = [side \in Sides |->
                       [Handle(Home, IF side = "A" THEN mapStyleA ELSE mapStyleB)
                          EXCEPT !.loaded = FALSE]]
          /\ host = [NewHost(target) EXCEPT !.phase = "loading",
                                            !.mapStyleA = mapStyleA,
                                            !.mapStyleB = mapStyleB,
                                            !.mapLayers[target] = list]
    /\ log = Silent

\* the watcher of a style prop: the reconciler, if it exists, is given the
\* new style, then the allow-list of the side is applied
watchMapStyle(e, side) ==
    LET updated == IF e.rec.variant = "none" THEN e
                   ELSE updateStyle(e, side, styleProp(e, side))
    IN  IF updated.log.err # "none" THEN updated ELSE applyLayers(updated, side)

\* the host passes another style for its side: the watcher of the prop runs
SetMapStyle == \E newStyle \in LayerStyles :
    /\ host.phase \in {"loading", "ready"}
    /\ host.updates < MaxUpdates
    /\ newStyle # styleProp(Engine, host.target)
    /\ LET e == [Start(Engine, "mapStyle", <<host.target, newStyle>>)
                   EXCEPT !.host.updates = @ + 1,
                          !.host.mapStyleA = IF host.target = "A" THEN newStyle ELSE @,
                          !.host.mapStyleB = IF host.target = "B" THEN newStyle ELSE @]
       IN  Yields(watchMapStyle(e, host.target))

NextWatch ==
    \/ OrderMapLoads
    \/ SetMapStyle
    \/ StyleLoading

SpecWatch == InitWatch /\ [][NextWatch]_vars

\* a map that was created and is not removed fires 'load' in the end
SpecWatchLoads == SpecWatch /\ WF_vars(OrderMapLoads)

----------------------------------------------------------------------------
(* The slider of the comparison component (src/unnamed/part_004) once both  *)
(* maps have loaded: the user drags it, the page lays the container out     *)
(* anew, the maps are resized                                               *)

\* along the split axis the container measures 0, 1 or SliderPx whole
\* pixels
SliderPx == 3
SliderDims == {0, 2, 2 * SliderPx}
SliderRects(orientation) ==
    {IF orientation = "horizontal"
     THEN [left |-> Offset, top |-> Offset, width |-> Across, height |-> d]
     ELSE [left |-> Offset, top |-> Offset, width |-> d, height |-> Across] : d \in SliderDims}

\* the state initializeSwiper() leaves
InitSlider ==
    \E orientation \in {"vertical", "horizontal"} : \E r \in SliderRects(orientation) :
       LET w == initializeSwiper([opts |-> [orientation |-> orientation, mousemove |-> FALSE,
                                            container |-> "element", variant |-> "clipPath"],
                                  ctl |-> NewController,
                                  dom |-> Page(r),
                                  handlers |-> NoEvents,
                                  out |-> Quiet])
       IN  /\ opts = w.opts
           /\ ctl = w.ctl
           /\ dom = w.dom
           /\ handlers = w.handlers
           /\ out = Quiet
           /\ maps = TwoMaps(Home)
           /\ sync = NoSync
           /\ rec = NoReconciler
           /\ host = [NewHost("A") EXCEPT !.orientation = orientation]
           /\ log = Silent

\* the host passes another orientation: the watcher of the prop runs, and
\* as both maps are there and loaded it initializes the slider again
SliderSetOrientation == \E orientation \in {"vertical", "horizontal"} :
    /\ orientation # host.orientation
    /\ \A side \in Sides : maps[side].alive /\ maps[side].loaded
    /\ Gives(initializeSwiper([Begin(World, "initialize", <<>>) EXCEPT !.opts.orientation = orientation]),
             [Start(Engine, "orientation", <<orientation>>) EXCEPT !.host.orientation = orientation])

\* the page lays the comparison container out anew
SliderRelayout ==
    \E r \in SliderRects(opts.orientation) :
        /\ r # dom.rect
        /\ Becomes([Begin(World, "layout", <<>>) EXCEPT !.dom.rect = r])

NextSlider ==
    \/ SwiperMouseDown
    \/ SwiperTouchStart
    \/ DocMouseMove
    \/ DocTouchMove
    \/ DocMouseUp
    \/ DocTouchEnd
    \/ MapResize
    \/ SliderRelayout
    \/ SliderSetOrientation

SpecSlider == InitSlider /\ [][NextSlider]_vars

----------------------------------------------------------------------------
(* Vocabulary of the properties *)

SplitAxis == IF opts.orientation = "horizontal" THEN "y" ELSE "x"

\* what a clip value leaves visible of a box along the split axis
Region(clip, box) == Visible(clip, SplitAxis, box.width, box.height)

Empty(region) == region.hi <= region.lo
Covers(region, extent) == region.lo = 0 /\ region.hi = extent

\* the start edge of a bounding box on the split axis
StartEdge(box) == IF opts.orientation = "horizontal" THEN box.top ELSE box.left

MoveOps == {"mousemove", "touchmove"}
EndOps == {"mouseup", "touchend"}
InvalidContainer == "Invalid container element for map compare."

----------------------------------------------------------------------------
(* The slider controller: boundary position and clip regions *)

\* C1: the boundary position is always null or within [0, extent], extent
\* being the cached container width (vertical) or height (horizontal).
C1_PositionWithinExtent ==
    \/ ctl.currentPosition.isNull
    \/ ctl.currentPosition.value \in 0..Extent(World, ctl.bounds)

\* C2: on an initialized controller setSlider(x) with x > extent puts the
\* boundary at extent, and with x < 0 puts it at 0.
C2_SetSliderClamps ==
    [][(out'.op = "setSlider" /\ ctl.isInitialized)
       => LET x == out'.args[1]
              extent == Extent(World, ctl.bounds)
          IN  /\ x > extent => ctl'.currentPosition = Number(extent)
              /\ x < 0 => ctl'.currentPosition = Number(0)]_vars

\* a step in which the controller applies a boundary position: a successful
\* initialize(), setSlider() or a pointer-move on an initialized controller,
\* or a resize handled at a position other than 0
AppliesPosition ==
    \/ out'.op = "initialize" /\ ~ctl.isInitialized /\ ctl'.isInitialized
    \/ out'.op \in {"setSlider"} \cup MoveOps /\ ctl.isInitialized /\ out'.err = "none"
    \/ /\ out'.op = "resize"
       /\ ~ctl.currentPosition.isNull
       /\ ctl.currentPosition.value # 0

\* C3: whenever a boundary position p in [0, extent] is applied, in either
\* orientation, map A is visible exactly on [0, p] and map B exactly on
\* [p, extent] along the split axis of the cached bounding box.
C3_ClipsComplementary ==
    [][(/\ AppliesPosition
        /\ ~ctl'.currentPosition.isNull
        /\ ctl'.currentPosition.value \in 0..Extent(World, ctl'.bounds))
       => LET p == ctl'.currentPosition.value
          IN  /\ Region(dom'.clipA, ctl'.bounds) = [lo |-> 0, hi |-> p]
              /\ Region(dom'.clipB, ctl'.bounds) = [lo |-> p, hi |-> Extent(World, ctl'.bounds)]]_vars

\* a drag has just put the boundary strictly inside the container, with
\* both maps partly visible
C3_Witness ==
    /\ out.op \in MoveOps
    /\ ctl.isInitialized
    /\ ~ctl.currentPosition.isNull
    /\ ctl.currentPosition.value > 0
    /\ ctl.currentPosition.value < Extent(World, ctl.bounds)
    /\ ~Empty(Region(dom.clipA, ctl.bounds))
    /\ ~Empty(Region(dom.clipB, ctl.bounds))

\* C4: a drag move at or before the start edge of the container leaves the
\* boundary at 0, map A's region empty and map B's covering the extent; a
\* drag move at or beyond the far edge leaves the boundary at extent, map
\* A's region covering the extent and map B's empty.
C4_DragToEdges ==
    [][(out'.op \in MoveOps /\ ctl.isInitialized /\ out'.op \in dom.docListeners)
       => LET coord == IF opts.orientation = "horizontal" THEN out'.args[2] ELSE out'.args[1]
              extent == Extent(World, ctl.bounds)
              start == StartEdge(ctl.bounds)
              regionA == Region(dom'.clipA, ctl'.bounds)
              regionB == Region(dom'.clipB, ctl'.bounds)
          IN  /\ coord <= start
                 => /\ ctl'.currentPosition = Number(0)
                    /\ Empty(regionA)
                    /\ Covers(regionB, extent)
              /\ coord >= start + extent
                 => /\ ctl'.currentPosition = Number(extent)
                    /\ Covers(regionA, extent)
                    /\ Empty(regionB)]_vars

\* a drag has just moved the boundary to the far edge of a container that
\* has some extent: map A covers it, map B is hidden
C4_Witness ==
    /\ out.op \in MoveOps
    /\ ctl.isInitialized
    /\ dom.docListeners # {}
    /\ Extent(World, ctl.bounds) > 0
    /\ ctl.currentPosition = Number(Extent(World, ctl.bounds))
    /\ Covers(Region(dom.clipA, ctl.bounds), Extent(World, ctl.bounds))
    /\ Empty(Region(dom.clipB, ctl.bounds))

----------------------------------------------------------------------------
(* The slider controller: lifecycle *)

\* C5: initialize() on a controller that is already initialized changes
\* nothing, and after every initialize() that leaves the controller
\* initialized the container holds exactly one swiper and one overlay, and
\* there is one resize listener on map B and one viewport-sync subscription.
C5_InitializeIdempotent ==
    [][out'.op = "initialize"
       => /\ ctl.isInitialized => UNCHANGED <<opts, ctl, dom, handlers>>
          /\ ctl'.isInitialized
             => /\ dom'.swipers = 1
                /\ dom'.overlays = 1
                /\ dom'.resizeListeners = 1
                /\ dom'.syncs = 1]_vars

\* initialize() has just been called on an initialized controller
C5_Witness ==
    /\ out.op = "initialize"
    /\ out.wasInitialized
    /\ ctl.isInitialized
    /\ dom.swipers = 1

\* C6: initialize() of a controller that is not initialized, with a string
\* selector that matches no element, raises 'Invalid container element',
\* touches no DOM node, listener or sync, and leaves the controller
\* uninitialized; the initialize() that follows resolves the selector again
\* and succeeds when it matches.
C6_InvalidContainerFailsFirst ==
    [][/\ (/\ opts.container = "selector"
           /\ ~ctl.isInitialized
           /\ Becomes(initialize(Begin(World, "initialize", <<>>), FALSE)))
          => /\ out'.err = InvalidContainer
             /\ ~ctl'.isInitialized
             /\ UNCHANGED <<opts, ctl, dom, handlers>>
       /\ (/\ out.op = "initialize"
           /\ out.err = InvalidContainer
           /\ Becomes(initialize(Begin(World, "initialize", <<>>), TRUE)))
          => /\ out'.err = "none"
             /\ ctl'.isInitialized]_vars

\* initialize() has just failed on the selector
C6_Witness ==
    /\ out.op = "initialize"
    /\ out.err = InvalidContainer
    /\ opts.container = "selector"
    /\ ~ctl.isInitialized
    /\ dom.overlays = 0

\* C7: while the controller is unmounted, no pointer-move, pointer-up or
\* touch-end invokes a slide-end handler.
C7_NoSlideEndAfterUnmount ==
    [][(~ctl.isInitialized /\ out'.op \in MoveOps \cup EndOps)
       => out'.fired = <<>>]_vars

\* C8: unmount() leaves no document-level drag listener behind, and while
\* the controller is unmounted no pointer-move changes the boundary position
\* or a clip region.
C8_UnmountDetachesDrag ==
    [][/\ out'.op = "unmount" => dom'.docListeners = {}
       /\ (~ctl.isInitialized /\ out'.op \in MoveOps)
          => /\ ctl'.currentPosition = ctl.currentPosition
             /\ dom'.clipA = dom.clipA
             /\ dom'.clipB = dom.clipB]_vars

\* C9: whenever the controller is not initialized there is no swiper in the
\* container, no resize listener of the controller on map B, no active
\* viewport sync and no document-level drag listener, and every initialize()
\* that succeeds leaves exactly one swiper, resize listener and sync.
C9_NothingLeaks ==
    /\ ~ctl.isInitialized
       => /\ dom.swipers = 0
          /\ dom.resizeListeners = 0
          /\ dom.syncs = 0
          /\ dom.docListeners = {}
    /\ (out.op = "initialize" /\ ctl.isInitialized)
       => /\ dom.swipers = 1
          /\ dom.resizeListeners = 1
          /\ dom.syncs = 1

\* C10: unmount() on a controller that is not initialized raises no error
\* and changes nothing.
C10_UnmountUninitializedNoop ==
    [][(out'.op = "unmount" /\ ~ctl.isInitialized)
       => /\ out'.err = "none"
          /\ UNCHANGED <<opts, ctl, dom, handlers>>]_vars

\* unmount() has just been called on a controller that was never initialized
C10_Witness ==
    /\ out.op = "unmount"
    /\ ~out.wasInitialized
    /\ ~ctl.clearSync
    /\ out.err = "none"

----------------------------------------------------------------------------
(* The slider controller: slide-end *)

\* the one emission of a drag's end, with the boundary position in force
SlideEnd(position) == <<[type |-> "slideend", payload |-> [currentPosition |-> position]]>>

\* the handlers the last operation invoked, in the order of the calls
Invoked == [k \in 1..Len(out.fired) |-> out.fired[k].handler]

Count(fn, seq) == Cardinality({k \in 1..Len(seq) : seq[k] = fn})
Without(fn, seq) == SelectSeq(seq, LAMBDA h : h # fn)

\* C11: on an initialized controller the pointer-up or touch-end that ends a
\* drag emits slide-end exactly once, with the boundary position in force as
\* currentPosition, leaves that position as it is and ends the drag (its
\* document listeners are gone, so nothing more is emitted before the next
\* pointer-down); a pointer-down, a pointer-move and setSlider() emit nothing.
C11_SlideEndOncePerDrag ==
    [][/\ (out'.op \in EndOps /\ ctl.isInitialized)
          => /\ out'.emitted = SlideEnd(ctl.currentPosition)
             /\ ctl'.currentPosition = ctl.currentPosition
             /\ out'.op \notin dom'.docListeners
             /\ (IF out'.op = "mouseup" THEN "mousemove" ELSE "touchmove") \notin dom'.docListeners
       /\ out'.op \in MoveOps \cup {"setSlider", "mousedown", "touchstart"}
          => out'.emitted = <<>> /\ out'.fired = <<>>]_vars

\* a touch drag that moved the boundary has just ended, and a handler was told
C11_Witness ==
    /\ out.op = "touchend"
    /\ ctl.isInitialized
    /\ ~ctl.currentPosition.isNull
    /\ out.emitted = SlideEnd(ctl.currentPosition)
    /\ Len(out.fired) = 1
    /\ out.fired[1].payload.currentPosition = ctl.currentPosition

\* C12: when slide-end is emitted, the handlers invoked are exactly the ones
\* registered for it at that moment, once per registration and in
\* registration order.
C12_AllHandlersInOrder ==
    [][out'.op \in EndOps => Invoked' = handlers["slideend"]]_vars

----------------------------------------------------------------------------
(* The viewport synchronizer *)

\* C14: with two synchronized maps, a move of one map leaves the other map
\* at the moved map's center, zoom, bearing and pitch, and the moved map's
\* own move event and the other map's mirrored one are the only move events:
\* nothing is propagated back, and no error ends the move.
C14_MirroredOnce ==
    [][(log'.op = "move" /\ sync.listening)
       => LET side == log'.args[1]
          IN  /\ maps'[side].viewport = log'.args[2]
              /\ maps'[Other(side)].viewport = maps'[side].viewport
              /\ log'.moves = <<side, Other(side)>>
              /\ log'.err = "none"]_vars

----------------------------------------------------------------------------
(* The style reconciler *)

\* where, among the calls an operation made on the map, a call is found
CallsOf(calls, fns, id) == {k \in 1..Len(calls) : calls[k].fn \in fns /\ calls[k].id = id}
Issued(calls, fns) == {k \in 1..Len(calls) : calls[k].fn \in fns}

\* the layers of a style that use a source
UsersOf(style, id) == {k \in 1..Len(style.layers) : style.layers[k].source = id}

\* C15: in every updateStyle call, for every source of the old style that
\* the new style lacks, each layer of the old style that uses the source and
\* is on the map is removed before removeSource is called for the source,
\* and removeSource is never called for a source that a layer on the map
\* still uses.
C15_LayersBeforeSource ==
    [][log'.op = "updateStyle"
       => LET target == log'.args[1]
              currentStyle == rec.current[target]
              calls == log'.calls
          IN  /\ \A i \in Issued(calls, {"removeSource"}) : calls[i].was # "in use"
              /\ \A i \in Issued(calls, {"removeSource"}) :
                    \A k \in UsersOf(currentStyle, calls[i].id) :
                       /\ \A j \in CallsOf(calls, {"removeLayer"}, currentStyle.layers[k].id) : j < i
                       /\ getLayer(Engine, target, currentStyle.layers[k].id)
                          => CallsOf(calls, {"removeLayer"}, currentStyle.layers[k].id) # {}]_vars

\* the layer of a style with this identifier is exactly this layer
HasLayer(style, layer) == \E k \in 1..Len(style.layers) : style.layers[k] = layer

\* C16: updateStyle never calls removeLayer for a layer, or removeSource for
\* a source, that the new style has as the old style had it, and never calls
\* addLayer or addSource for an identifier that is on the map already.
C16_NoNeedlessRemoveOrAdd ==
    [][log'.op = "updateStyle"
       => LET target == log'.args[1]
              newStyle == log'.args[2]
              currentStyle == rec.current[target]
              calls == log'.calls
          IN  /\ \A i \in Issued(calls, {"removeLayer"}) :
                    \A k \in 1..Len(currentStyle.layers) :
                       currentStyle.layers[k].id = calls[i].id
                       => ~HasLayer(newStyle, currentStyle.layers[k])
              /\ \A i \in Issued(calls, {"removeSource"}) :
                    ~(/\ HasSource(newStyle, calls[i].id)
                      /\ newStyle.sources[calls[i].id] = currentStyle.sources[calls[i].id])
              /\ \A i \in Issued(calls, {"addLayer", "addSource"}) : calls[i].was # "exists"]_vars

\* C17: updateStyle with a style equal to the baseline of the side makes no
\* call on the map: no addSource, removeSource, addLayer, removeLayer,
\* setTiles, setPaintProperty, setLayoutProperty or setFilter, whatever the
\* style, one without sources or without layers included.
C17_SameStyleNoCalls ==
    [][(log'.op = "updateStyle" /\ log'.args[2] = rec.current[log'.args[1]])
       => log'.calls = <<>>]_vars

\* C18: for a source that is a raster source in the old and in the new
\* style, updateStyle calls setTiles with the new list on the live source
\* when the tiles differ in length or at a position, and then calls neither
\* removeSource nor addSource for it; when the tiles are equal it does not
\* call setTiles.
C18_TilesUpdatedInPlace ==
    [][log'.op = "updateStyle"
       => LET target == log'.args[1]
              newStyle == log'.args[2]
              currentStyle == rec.current[target]
              calls == log'.calls
          IN  \A id \in Range(SourceIds) :
                 (newStyle.sources[id].type = "raster" /\ currentStyle.sources[id].type = "raster")
                 => IF newStyle.sources[id].tiles # currentStyle.sources[id].tiles
                    THEN /\ \E i \in CallsOf(calls, {"setTiles"}, id) :
                               calls[i].value = newStyle.sources[id].tiles
                         /\ maps'[target].style.sources[id].tiles = newStyle.sources[id].tiles
                         /\ CallsOf(calls, {"removeSource", "addSource"}, id) = {}
                    ELSE CallsOf(calls, {"setTiles"}, id) = {}]_vars

\* C19: an edit of a style object by the caller that passed it, whether as
\* a base style at construction or to updateStyle, leaves the baseline of
\* every side, which is what getCurrentStyle returns and what the next
\* updateStyle diffs against, as it was.
C19_BaselineIndependent ==
    [][log'.op = "mutate"
       => \A side \in Sides : getCurrentStyle(Engine, side)' = getCurrentStyle(Engine, side)]_vars

----------------------------------------------------------------------------
(* The layer visibility engine *)

\* whether a live layer is shown: 'visibility' is 'visible' or not set
Shown(layer) == layer.layout.visibility # "none"

\* C20: updateLayerVisibility on a map whose style is loaded: with an empty
\* allow-list it makes no call and leaves every layer as it is; with a
\* non-empty one it sets, for every layer of the map's style in order, the
\* visibility to 'visible' when the identifier is in the list and to 'none'
\* when it is not, and touches nothing else.
C20_AllowListApplied ==
    [][(log'.op = "mapLayers" /\ maps[log'.args[1]].alive /\ maps[log'.args[1]].loaded)
       => LET side == log'.args[1]
              list == log'.args[2]
              layers == maps[side].style.layers
          IN  /\ maps'[Other(side)] = maps[Other(side)]
              /\ log'.err = "none"
              /\ list = <<>> => (log'.calls = <<>> /\ maps' = maps)
              /\ list # <<>>
                 => /\ log'.calls =
                          [k \in 1..Len(layers) |->
                             [fn |-> "setLayoutProperty", id |-> layers[k].id, key |-> "visibility",
                              value |-> IF layers[k].id \in Range(list) THEN "visible" ELSE "none",
                              was |-> "ok"]]
                    /\ Len(maps'[side].style.layers) = Len(layers)
                    /\ \A k \in 1..Len(layers) :
                          /\ maps'[side].style.layers[k].layout.visibility =
                                (IF layers[k].id \in Range(list) THEN "visible" ELSE "none")
                          /\ Shown(maps'[side].style.layers[k]) <=> layers[k].id \in Range(list)
                          /\ [maps'[side].style.layers[k] EXCEPT !.layout = layers[k].layout] = layers[k]]_vars

\* a non-empty allow-list has just been applied to a loaded map with two
\* layers: one of them was made visible, the other is hidden
C20_Witness ==
    /\ log.op = "mapLayers"
    /\ log.args[2] # <<>>
    /\ maps[log.args[1]].alive
    /\ maps[log.args[1]].loaded
    /\ Len(log.calls) = 2
    /\ \E i \in 1..2 : log.calls[i].value = "visible"
    /\ \E i \in 1..2 : log.calls[i].value = "none"
    /\ \E k \in 1..Len(maps[log.args[1]].style.layers) : ~Shown(maps[log.args[1]].style.layers[k])

\* C21: whenever the allow-list of a side is empty, every layer of the map
\* of that side is shown, whatever allow-lists were passed before.
C21_EmptyListShowsAll ==
    \A side \in Sides :
       (host.mapLayers[side] = <<>> /\ maps[side].alive)
       => \A k \in 1..Len(maps[side].style.layers) : Shown(maps[side].style.layers[k])

----------------------------------------------------------------------------
(* The layer ordering engine *)

\* the identifiers moveLayer was called for, in the order of the calls
Moved(calls) ==
    LET moves == SelectSeq(calls, LAMBDA c : c.fn = "moveLayer")
    IN  [k \in 1..Len(moves) |-> moves[k].id]

\* where an identifier is in a list without repetitions, 0 when it is not
PlaceIn(list, id) == IF id \in Range(list) THEN CHOOSE k \in 1..Len(list) : list[k] = id ELSE 0

\* whether updateLayerOrdering finds the map of a side ready
Ready(side) == maps[side].alive /\ maps[side].loaded

\* the moves follow the list: forwards for 'topmost', backwards for
\* 'bottommost', one move for each listed layer the style has
Follows(moved, list, layerOrder, style) ==
    /\ Range(moved) = Range(list) \cap LayerIdsOf(style)
    /\ \A i \in 1..Len(moved) : \A j \in 1..Len(moved) :
          i < j => IF layerOrder = "topmost"
                   THEN PlaceIn(list, moved[i]) < PlaceIn(list, moved[j])
                   ELSE PlaceIn(list, moved[i]) > PlaceIn(list, moved[j])

\* C22: when updateLayerOrdering runs on a ready map for a changed
\* allow-list, moveLayer is called once for each listed layer of the style,
\* in the order of the list under 'topmost' and in the reversed order of the
\* list under 'bottommost'.
C22_MovesFollowPolicy ==
    [][(log'.op = "mapLayers" /\ Ready(log'.args[1]))
       => Follows(Moved(log'.calls), log'.args[2], host'.layerOrder, maps[log'.args[1]].style)]_vars

\* the list [M, L] has just been applied under 'bottommost': L was moved,
\* then M
C22_Witness ==
    /\ log.op = "mapLayers"
    /\ log.args[2] = <<"M", "L">>
    /\ host.layerOrder = "bottommost"
    /\ Moved(log.calls) = <<"L", "M">>

\* whether a layer is above every other listed layer of the style
Highest(style, list, id) ==
    /\ id \in LayerIdsOf(style)
    /\ \A other \in (Range(list) \cap LayerIdsOf(style)) \ {id} :
          LayerIndex(style.layers, other, 1) < LayerIndex(style.layers, id, 1)

\* the listed layer the policy is documented to leave on top: the first of
\* the list under 'topmost', the last under 'bottommost'
DocumentedTop(list, layerOrder) == IF layerOrder = "topmost" THEN list[1] ELSE list[Len(list)]

\* C23: after updateLayerOrdering has applied a changed allow-list to a
\* ready map, the first listed layer is the highest of the listed layers
\* under 'topmost', and the last listed layer is under 'bottommost'.
C23_FirstListedOnTop ==
    [][(/\ log'.op = "mapLayers"
        /\ Ready(log'.args[1])
        /\ log'.args[2] # <<>>
        /\ DocumentedTop(log'.args[2], host'.layerOrder) \in LayerIdsOf(maps[log'.args[1]].style))
       => Highest(maps'[log'.args[1]].style, log'.args[2],
                  DocumentedTop(log'.args[2], host'.layerOrder))]_vars

\* the layers of the listed identifiers that a side's style has
ListedLayers(side) == Range(host.mapLayers[side]) \cap LayerIdsOf(maps[side].style)

\* C24: when the map of a side is missing or its style is not loaded,
\* updateLayerVisibility and updateLayerOrdering of that side call neither
\* setLayoutProperty nor moveLayer, raise no error and leave the map as it
\* is; nothing is kept for later: a style that becomes loaded brings no call.
C24_NotReadySkips ==
    [][/\ (log'.op = "mapLayers" /\ ~Ready(log'.args[1]))
          => (log'.calls = <<>> /\ log'.err = "none" /\ maps' = maps)
       /\ log'.op = "layerOrder"
          => /\ log'.err = "none"
             /\ \A side \in Sides : ~Ready(side) => maps'[side] = maps[side]
             /\ (\A side \in Sides : ~Ready(side)) => log'.calls = <<>>
             /\ Range(Moved(log'.calls)) \subseteq UNION {ListedLayers(side) : side \in {s \in Sides : Ready(s)}}
       /\ log'.op = "style" => log'.calls = <<>>]_vars

\* an allow-list naming layers of the style has just been passed for a map
\* that exists and whose style is not loaded: no call was made
C24_Witness ==
    /\ log.op = "mapLayers"
    /\ maps[log.args[1]].alive
    /\ ~maps[log.args[1]].loaded
    /\ ListedLayers(log.args[1]) # {}
    /\ log.calls = <<>>

\* C25: when an allow-list is applied to a ready map, an identifier of the
\* list that names no layer of the style brings no setLayoutProperty and no
\* moveLayer call and no error, and the other identifiers of the list are
\* still made visible and moved.
C25_UnknownLayerSkipped ==
    [][(log'.op = "mapLayers" /\ Ready(log'.args[1]))
       => LET calls == log'.calls
              known == LayerIdsOf(maps[log'.args[1]].style)
          IN  /\ log'.err = "none"
              /\ \A i \in 1..Len(calls) : calls[i].id \in known /\ calls[i].was = "ok"
              /\ \A id \in Range(log'.args[2]) \cap known :
                    /\ \E i \in 1..Len(calls) :
                          /\ calls[i].fn = "setLayoutProperty"
                          /\ calls[i].id = id
                          /\ calls[i].value = "visible"
                    /\ \E i \in 1..Len(calls) : calls[i].fn = "moveLayer" /\ calls[i].id = id]_vars

\* the list [x, M] has just been applied to a ready map whose style has M
\* and no x: M was moved, nothing was called for x
C25_Witness ==
    /\ log.op = "mapLayers"
    /\ log.args[2] = <<"x", "M">>
    /\ Ready(log.args[1])
    /\ Moved(log.calls) = <<"M">>
    /\ \A i \in 1..Len(log.calls) : log.calls[i].id # "x"

----------------------------------------------------------------------------
(* The host components and the slider *)

\* C26: whenever a host component invokes initialize() of the slider
\* controller, map A and map B have both fired 'load'.
C26_InitializeAfterBothLoads ==
    [][(log'.op \in {"load", "tick"} /\ out'.op = "initialize") => (Ready("A") /\ Ready("B"))']_vars

\* the extent of the container along the split axis, as laid out
ContainerExtent == IF opts.orientation = "horizontal" THEN dom.rect.height ELSE dom.rect.width

\* C27: every 'sliderend' the host emits carries the position the slide-end
\* carried and a percentage that is that position over the extent of the
\* container, times 100, rounded to two decimals, and lies within 0..100;
\* no 'sliderend' is emitted for a null position or an extent of zero.
C27_SliderEndPercentage ==
    [][\A i \in 1..Len(out'.emitted) :
          out'.emitted[i].type = "slideend" =>
             LET position == out'.emitted[i].payload.currentPosition
             IN  IF position.isNull \/ ContainerExtent' = 0
                 THEN out'.sliderend = <<>>
                 ELSE /\ Len(out'.sliderend) = 1
                      /\ out'.sliderend[1].position = position.value
                      /\ out'.sliderend[1].percentage = Hundredths(position.value, ContainerExtent')
                      /\ out'.sliderend[1].percentage \in 0..10000]_vars

\* C28: right after an initialize() of the controller of MapCompare.vue that
\* initialized it, the position is half of the extent of the container
\* along the split axis; when that extent was zero, both maps were resized
\* and the container was measured again.
C28_StartsAtMidpoint ==
    [][(/\ out'.op = "initialize"
        /\ opts.variant = "clipPath"
        /\ ~out'.wasInitialized
        /\ ctl'.isInitialized)
       => /\ ctl'.bounds = dom'.rect
          /\ ctl'.currentPosition = Number(ContainerExtent' \div 2)
          /\ ContainerExtent' = 0 => out'.resized = {"A", "B"}]_vars

\* initialize() has just initialized the controller in a container that
\* measures zero along the split axis: both maps were resized
C28_Witness ==
    /\ out.op = "initialize"
    /\ opts.variant = "clipPath"
    /\ ~out.wasInitialized
    /\ ctl.isInitialized
    /\ ContainerExtent = 0
    /\ out.resized = {"A", "B"}
    /\ ctl.currentPosition = Number(0)

----------------------------------------------------------------------------
(* The style reconciler: what updateStyle leaves on the map *)

\* the identifiers of the sources a style has
SourceIdsOf(style) == {id \in Range(SourceIds) : HasSource(style, id)}

\* C29: when the sources and layers of the map are those of the baseline
\* before the call, then after an updateStyle that returned the map has the
\* layer identifiers of the new style and the source identifiers of the new
\* style.
C29_MapHasNewStyleIds ==
    [][(/\ log'.op = "updateStyle"
        /\ log'.err = "none"
        /\ maps[log'.args[1]].style = rec.current[log'.args[1]])
       => /\ LayerIdsOf(maps'[log'.args[1]].style) = LayerIdsOf(log'.args[2])
          /\ SourceIdsOf(maps'[log'.args[1]].style) = SourceIdsOf(log'.args[2])]_vars

\* the identifiers addLayer was called for, in the order of the calls
Added(calls) ==
    LET adds == SelectSeq(calls, LAMBDA c : c.fn = "addLayer")
    IN  [k \in 1..Len(adds) |-> adds[k].id]

\* the identifiers of the layers of a style, in the order of the layers
LayerIdList(layers) == [k \in 1..Len(layers) |-> layers[k].id]

\* C30: updateStyle calls addLayer once for each layer of the new style
\* whose identifier the old style lacks, in the order of the layers of the
\* new style, and calls addSource only before the first addLayer.
C30_AddsInStyleOrder ==
    [][log'.op = "updateStyle"
       => LET target == log'.args[1]
              newStyle == log'.args[2]
              currentStyle == rec.current[target]
              calls == log'.calls
          IN  /\ Added(calls) = LayerIdList(SelectSeq(newStyle.layers,
                                     LAMBDA layer : layer.id \notin LayerIdsOf(currentStyle)))
              /\ \A i \in Issued(calls, {"addSource"}) :
                    \A j \in Issued(calls, {"addLayer"}) : i < j]_vars

\* the layer of a style with an identifier the style has
LayerOf(style, id) == style.layers[LayerIndex(style.layers, id, 1)]

\* whether call c sets a key of a property group of a layer to a value
Sets(c, fn, id, key, value) == c.fn = fn /\ c.id = id /\ c.key = key /\ c.value = value

\* C31: for a layer of both the old and the new style, updateStyle calls
\* setPaintProperty only when the paint differs, setLayoutProperty only when
\* the layout differs and setFilter only when the filter differs; a group
\* that differs has every key of the new layer set to its new value; and
\* after the call the paint, layout and filter of the layer on the map are
\* those of the new layer.
C31_KeptLayerUpdated ==
    [][(log'.op = "updateStyle" /\ log'.err = "none")
       => LET target == log'.args[1]
              newStyle == log'.args[2]
              currentStyle == rec.current[target]
              calls == log'.calls
          IN  \A id \in LayerIdsOf(newStyle) \cap LayerIdsOf(currentStyle) :
                 LET old == LayerOf(currentStyle, id)
                     new == LayerOf(newStyle, id)
                 IN  /\ CallsOf(calls, {"setPaintProperty"}, id) # {} => old.paint # new.paint
                     /\ CallsOf(calls, {"setLayoutProperty"}, id) # {} => old.layout # new.layout
                     /\ CallsOf(calls, {"setFilter"}, id) # {} => old.filter # new.filter
                     /\ (old.paint # new.paint /\ new.paint.p # 0)
                        => \E i \in 1..Len(calls) : Sets(calls[i], "setPaintProperty", id, "p", new.paint.p)
                     /\ (old.paint # new.paint /\ new.paint.q # 0)
                        => \E i \in 1..Len(calls) : Sets(calls[i], "setPaintProperty", id, "q", new.paint.q)
                     /\ (old.layout # new.layout /\ new.layout.p # 0)
                        => \E i \in 1..Len(calls) : Sets(calls[i], "setLayoutProperty", id, "p", new.layout.p)
                     /\ id \in LayerIdsOf(maps'[target].style)
                        => /\ LayerOf(maps'[target].style, id).paint = new.paint
                           /\ LayerOf(maps'[target].style, id).layout = new.layout
                           /\ LayerOf(maps'[target].style, id).filter = new.filter]_vars

----------------------------------------------------------------------------
(* The slider controller: resize, calls before initialization, drags *)

\* C32: after a 'resize' of map B handled by an initialized controller, the
\* cached bounds are the bounding box of the container, the position is at
\* most the new extent, and the clips of both maps are the ones setPosition
\* writes for that position with the new bounds.
C32_ResizeKeepsConsistent ==
    [][(out'.op = "resize" /\ ctl.isInitialized)
       => LET w == [opts |-> opts', ctl |-> ctl', dom |-> dom', handlers |-> handlers', out |-> out']
          IN  /\ ctl'.bounds = dom'.rect
              /\ ~ctl'.currentPosition.isNull
              /\ ctl'.currentPosition.value <= ContainerExtent'
              /\ dom'.clipA = clipOfA(w, ctl'.currentPosition.value)
              /\ dom'.clipB = clipOfB(w, ctl'.currentPosition.value)]_vars

\* C33: setSlider(x) on a controller that is not initialized raises no
\* error, leaves the position null and leaves the clips of both maps as
\* they are.
C33_SetSliderBeforeInitialize ==
    [][(out'.op = "setSlider" /\ ~ctl.isInitialized)
       => /\ out'.err = "none"
          /\ ctl'.currentPosition = NoNumber
          /\ dom'.clipA = dom.clipA
          /\ dom'.clipB = dom.clipB
          /\ dom'.transform = dom.transform]_vars

\* setSlider has just been called on a controller that an unmount() left
\* uninitialized, with a drag listener still on the document: nothing
\* changed
C33_Witness ==
    /\ out.op = "setSlider"
    /\ ~out.wasInitialized
    /\ ~ctl.isInitialized
    /\ dom.docListeners # {}
    /\ ctl.currentPosition = NoNumber
    /\ dom.clipA = NoClip

\* whether the button or the finger that a pointer-down on the swiper took
\* is still down
Dragging(pointer) == pointer \in dom.pressed

\* C34: without the mousemove option, the position and the clips change
\* only in initialize, unmount, setSlider, a resize, or a mouse move or
\* touch move between the pointer-down on the swiper and its pointer-up.
C34_MovesOnlyWhileDragging ==
    [][(/\ ~opts.mousemove
        /\ \/ ctl'.currentPosition # ctl.currentPosition
           \/ dom'.clipA # dom.clipA
           \/ dom'.clipB # dom.clipB)
       => \/ out'.op \in {"initialize", "unmount", "setSlider", "resize"}
          \/ out'.op = "mousemove" /\ Dragging("mouse")
          \/ out'.op = "touchmove" /\ Dragging("touch")]_vars

\* a drag with the mouse has ended after it moved the boundary to the start
\* edge, and no listener of mouse moves is left on the document
C34_Witness ==
    /\ ~opts.mousemove
    /\ out.op = "mouseup"
    /\ ctl.isInitialized
    /\ dom.pressed = {}
    /\ ctl.currentPosition = Number(0)
    /\ "mousemove" \notin dom.docListeners

\* whether the page lets the user select text
Selectable == dom.userSelect = ""

\* C35: text selection is suppressed exactly while a drag is active, that
\* is, while a pointer that went down on the swiper has not been released;
\* in particular it is not left suppressed once the controller is
\* unmounted and no drag listener is left on the document.
C35_SelectionSuppressedWhileDragging ==
    /\ ~Selectable <=> dom.pressed # {}
    /\ (~ctl.isInitialized /\ dom.docListeners = {}) => Selectable

----------------------------------------------------------------------------
(* The component that can be switched on and off: map B and its slider     *)

\* C36: whatever the order of the load of map A and the changes of
\* compareEnabled, at most one map B exists at any time: no map B is
\* constructed while one that was constructed before has not been removed.
C36_OneLiveMapB == LiveMapsB <= 1

\* C37: an initializeMapB() that resumes after the comparison was switched
\* off, or the component unmounted, while it waited for the load of map B or
\* at a tick, does nothing through a map B handle that is null or removed;
\* and no slider is mounted while compareEnabled is false.
C37_ResumedInitializationIsSafe ==
    [][/\ (log'.op = "tick" /\ maps'["A"].alive) => log'.err = "none"
       /\ ~host'.compareEnabled => ~ctl'.isInitialized]_vars

\* C38: whatever the orientation changes, the switching of the comparison
\* and the initializations of the maps, the container holds at most one
\* control container and one swiper: a controller that exists is unmounted
\* before another is initialized.
C38_OneSliderOnContainer ==
    /\ dom.overlays <= 1
    /\ dom.swipers <= 1
    /\ ctl.isInitialized => (dom.overlays = 1 /\ dom.swipers = 1)

\* the orientation changed while a slider was there, and the slider was
\* initialized again
C38_Witness ==
    /\ log.op = "orientation"
    /\ out.op = "initialize"
    /\ out.wasInitialized
    /\ ctl.isInitialized
    /\ opts.orientation = "horizontal"
    /\ dom.swipers = 1

----------------------------------------------------------------------------
(* The style props of the comparison component *)

\* C39: once the host has handled a change of the style of a side that has
\* a non-empty allow-list, every layer of that map that the list does not
\* name is hidden, the layers that were just added too, whether the style
\* of the map counts as loaded or not.
C39_UnlistedLayersHidden ==
    [][(log'.op = "mapStyle" /\ host'.mapLayers[log'.args[1]] # <<>> /\ log'.err = "none")
       => LET side == log'.args[1]
              layers == maps'[side].style.layers
          IN  \A k \in 1..Len(layers) :
                 layers[k].id \notin Range(host'.mapLayers[side]) => ~Shown(layers[k])]_vars

\* the map of a side has the sources and the layers of the style that the
\* host gave for that side last
Corresponds(side) ==
    /\ SourceIdsOf(maps[side].style) = SourceIdsOf(styleProp(Engine, side))
    /\ LayerIdsOf(maps[side].style) = LayerIdsOf(styleProp(Engine, side))

\* C40: a change of the style of a side that arrives while the maps load
\* is reflected on the map in the end: from some moment on the maps have
\* loaded and the map of that side has the sources and layers of the style
\* given last.
C40_LateStyleReflected == <>[](host.phase = "ready" /\ Corresponds(host.target))

====
